---- MODULE Spec2Model ----
(***************************************************************************)
(* Model of the ALCops analyzer update and installation engine:            *)
(*   - InstallationMutex            (src/src/al-extension-handler.ts)      *)
(*   - stageAndReplaceFiles         (src/src/file-staging.ts)              *)
(*   - the manifest store           (src/src/manifest-manager.ts)          *)
(*   - checkDirectoryForLockedFiles (src/unnamed/part_000)                 *)
(*   - downloadALCopsAnalyzers      (src/src/version-manager.ts)           *)
(*                                                                         *)
(* The specifications share the operators below:                           *)
(*   SpecStaging  one call of stageAndReplaceFiles, one file-system call   *)
(*                per step, for every bounded input;                       *)
(*   SpecMutex    concurrent withLock(fn) calls, fn any operation that     *)
(*                returns or throws;                                       *)
(*   Spec         concurrent install runs serialized by the mutex, one     *)
(*                step per synchronous segment between two awaits;         *)
(*   SpecActivate the activation of the extension and the install runs it  *)
(*                starts;                                                  *)
(*   SpecPending  the operations on the manifest file in any order;        *)
(*   SpecLockCheck, SpecChannel, SpecLibFolder                             *)
(*                one call of checkDirectoryForLockedFiles, of             *)
(*                queryLatestVersion and of findMatchingLibFolder, for     *)
(*                every bounded input.                                     *)
(***************************************************************************)
EXTENDS Integers, Sequences, FiniteSets, TLC

(***************************************************************************)
(* Bounds.                                                                 *)
(***************************************************************************)
\* number of distinct file names that can appear in a package or the target
NumFiles == 3
\* number of file names a downloaded package can hold (Spec)
NumPkgFiles == 2
\* number of install runs (calls of downloadALCopsAnalyzers) in a behaviour
\* of Spec
MaxRuns == 2
\* number of withLock callers in a behaviour of SpecMutex
MaxCallers == 5
\* SpecPending: clears in a row that are counted
MaxClears == 3
\* SpecChannel: length of the list of published versions
MaxPublished == 3
\* SpecLibFolder: greatest N of a net<N>.0 target moniker or lib folder
MaxNet == 14

(***************************************************************************)
(* File names, directory listings and file contents.                       *)
(***************************************************************************)
FileName(i) == "f" \o ToString(i)

Files == {FileName(i) : i \in 1..NumFiles}

\* a sub-directory that a package folder may contain beside its files
SubDir == "sub"

Entries == Files \cup {SubDir}

\* fs.readdirSync order: a fixed total order of the entry names
DirOrder == [i \in 1..(NumFiles + 1) |-> IF i = 1 THEN FileName(1)
                                          ELSE IF i = 2 THEN SubDir
                                          ELSE FileName(i - 1)]

\* fs.readdirSync of a directory holding exactly the entries in S
Listing(S) == SelectSeq(DirOrder, LAMBDA e : e \in S)

Range(s) == {s[i] : i \in 1..Len(s)}

\* content of a file: "none" when the file does not exist, else the tag of
\* the package version its bytes come from
Versions == {"v1", "v2"}

Contents == {"none"} \cup Versions

NoFiles == [f \in Files |-> "none"]

(***************************************************************************)
(* fs.copyFileSync.  A failed copy leaves the destination as it was, or,   *)
(* when the failure comes after the destination was opened for writing,    *)
(* removes it.  A destination locked by another process cannot be opened   *)
(* for writing: the copy fails and the destination is untouched.           *)
(***************************************************************************)
\* the contents the destination can hold after copying content c over dir[f];
\* the set of [ok, dir] outcomes
copyFileSync(dir, f, c, dstLocked) ==
    IF dstLocked
    THEN {[ok |-> FALSE, dir |-> dir]}
    ELSE {[ok |-> TRUE,  dir |-> [dir EXCEPT ![f] = c]],
          [ok |-> FALSE, dir |-> dir],
          [ok |-> FALSE, dir |-> [dir EXCEPT ![f] = "none"]]}

(***************************************************************************)
(* stageAndReplaceFiles, one file-system call per step.                    *)
(* A staging state s:                                                      *)
(*   pc       "read" | "backup" | "copy" | "finish" | "rollback" | "return"*)
(*   files    sourceFiles, the regular files of the source directory       *)
(*   i        index of the file the loop is at                             *)
(*   target   content of the target directory                              *)
(*   bdir     the backup directory exists                                  *)
(*   backup   content of the backup directory                              *)
(*   replaced replacedFiles                                                *)
(*   failed   failedFiles                                                  *)
(*   rb       backup files rollbackFiles still has to copy back            *)
(*   rbErrors what rollbackFiles logged: the files it failed to copy back, *)
(*            "readdir" when it could not list the backup directory        *)
(*   result   the StagingResult returned ("threw": an exception escaped)   *)
(***************************************************************************)
NoResult == [kind |-> "none", success |-> FALSE, replacedCount |-> 0, failedFiles |-> <<>>]

StagingSuccess(n) ==
    [kind |-> "success", success |-> TRUE, replacedCount |-> n, failedFiles |-> <<>>]

StagingPartial(failed) ==
    [kind |-> "partial", success |-> FALSE, replacedCount |-> 0, failedFiles |-> failed]

StagingCatastrophic ==
    [kind |-> "catastrophic", success |-> FALSE, replacedCount |-> 0, failedFiles |-> <<>>]

StagingThrew ==
    [kind |-> "threw", success |-> FALSE, replacedCount |-> 0, failedFiles |-> <<>>]

StagingBegin(target) ==
    [pc |-> "read", files |-> <<>>, i |-> 1, target |-> target, bdir |-> FALSE,
     backup |-> NoFiles, replaced |-> <<>>, failed |-> <<>>, rb |-> <<>>,
     rbErrors |-> {}, result |-> NoResult]

\* the regular files of a source listing (directories are filtered out)
sourceFilesOf(src) == SelectSeq(src, LAMBDA e : e \in Files)

\* the outer catch: remove the backup directory if it exists (which can throw
\* again, out of the function), then report a failure with no failed files
stagingCatch(s) ==
    IF s.bdir
    THEN {[s EXCEPT !.pc = "return", !.bdir = FALSE, !.result = StagingCatastrophic],
          [s EXCEPT !.pc = "return", !.result = StagingThrew]}
    ELSE {[s EXCEPT !.pc = "return", !.result = StagingCatastrophic]}

\* (variant) the backup directory is created before the enumeration is
\* tested for emptiness
stagingRead_BackupDirFirst(s, src) ==
    LET files == sourceFilesOf(src) IN
    stagingCatch(s)
    \cup (IF files = <<>>
          THEN {[s EXCEPT !.pc = "return", !.bdir = TRUE, !.result = StagingSuccess(0)]}
          ELSE {[s EXCEPT !.pc = "backup", !.files = files, !.bdir = TRUE]})

\* steps 1 and 2: read the source directory, create the backup directory
stagingRead(s, src) ==
    LET files == sourceFilesOf(src) IN
    stagingCatch(s)  \* readdirSync, statSync or mkdirSync threw
    \cup (IF files = <<>>
          THEN {[s EXCEPT !.pc = "return", !.result = StagingSuccess(0)]}
          ELSE {[s EXCEPT !.pc = "backup", !.files = files, !.bdir = TRUE]})

\* (variant) the loop overwrites the target file without backing it up
stagingBackup_NoBackup(s) ==
    {[s EXCEPT !.pc = "copy"]}

\* step 3, first half: back up the target file if it exists
stagingBackup(s) ==
    LET f == s.files[s.i] IN
    IF s.target[f] = "none"
    THEN {[s EXCEPT !.pc = "copy"]}
    ELSE {IF o.ok THEN [s EXCEPT !.pc = "copy", !.backup = o.dir]
                  ELSE [s EXCEPT !.pc = "finish", !.backup = o.dir, !.failed = <<f>>]
          : o \in copyFileSync(s.backup, f, s.target[f], FALSE)}

\* (variant) a loop that goes on to the next file after a failed copy
stagingCopy_Continues(s, locked, newc) ==
    LET f == s.files[s.i] IN
    {[s EXCEPT !.pc = IF s.i = Len(s.files) THEN "finish" ELSE "backup",
               !.i = s.i + 1, !.target = o.dir,
               !.replaced = IF o.ok THEN Append(s.replaced, f) ELSE s.replaced,
               !.failed = IF o.ok THEN s.failed ELSE Append(s.failed, f)]
     : o \in copyFileSync(s.target, f, newc, f \in locked)}

\* step 3, second half: copy the source file over the target file
stagingCopy(s, locked, newc) ==
    LET f == s.files[s.i] IN
    {IF o.ok
     THEN [s EXCEPT !.pc = IF s.i = Len(s.files) THEN "finish" ELSE "backup",
                    !.i = s.i + 1, !.target = o.dir,
                    !.replaced = Append(s.replaced, f)]
     ELSE [s EXCEPT !.pc = "finish", !.target = o.dir, !.failed = <<f>>]
     : o \in copyFileSync(s.target, f, newc, f \in locked)}

\* step 4 (no failure: drop the backup directory) or entry of step 5
stagingFinish(s) ==
    IF s.failed = <<>>
    THEN {[s EXCEPT !.pc = "return", !.bdir = FALSE,
                    !.result = StagingSuccess(Len(s.replaced))]}
         \cup stagingCatch(s)   \* rmSync threw
    ELSE {[s EXCEPT !.pc = "rollback",
                    !.rb = SelectSeq(DirOrder, LAMBDA e : e \in Files /\ s.backup[e] # "none")],
          \* readdirSync(backupDir) threw: rollbackFiles logs and returns
          [s EXCEPT !.pc = "return", !.rbErrors = {"readdir"},
                    !.result = StagingPartial(s.failed)]}

\* rollbackFiles: copy each backup file back (a failure is logged and
\* skipped), then remove the backup directory (a failure is logged)
rollbackStep(s, locked) ==
    IF s.rb = <<>>
    THEN {[s EXCEPT !.pc = "return", !.bdir = FALSE, !.result = StagingPartial(s.failed)],
          [s EXCEPT !.pc = "return", !.result = StagingPartial(s.failed)]}
    ELSE LET f == Head(s.rb) IN
         {[s EXCEPT !.target = o.dir, !.rb = Tail(s.rb),
                    !.rbErrors = IF o.ok THEN s.rbErrors ELSE s.rbErrors \cup {f}]
          : o \in copyFileSync(s.target, f, s.backup[f], f \in locked)}

\* the successors of staging state s
stagingNext(s, src, locked, newc) ==
    CASE s.pc = "read"     -> stagingRead(s, src)
      [] s.pc = "backup"   -> stagingBackup(s)
      [] s.pc = "copy"     -> stagingCopy(s, locked, newc)
      [] s.pc = "finish"   -> stagingFinish(s)
      [] s.pc = "rollback" -> rollbackStep(s, locked)
      [] OTHER             -> {}

\* every state in which the call that is at s can return
RECURSIVE stagingRun(_, _, _, _)
stagingRun(s, src, locked, newc) ==
    IF s.pc = "return" THEN {s}
    ELSE UNION {stagingRun(t, src, locked, newc) : t \in stagingNext(s, src, locked, newc)}

\* stageAndReplaceFiles(sourceDir, targetDir): the states it can return in
stageAndReplaceFiles(src, target, locked, newc) ==
    stagingRun(StagingBegin(target), src, locked, newc)

(***************************************************************************)
(* The manifest store (manifest-manager.ts).  A manifest value is a record *)
(* with the fields of ALCopsManifest; exists = FALSE stands for "no        *)
(* manifest file".  downloadedAt (a timestamp) is left out.  pendingUpdate *)
(* = FALSE and pendingVersion = "none" stand for an absent or false flag   *)
(* and an absent pendingVersion.  corrupt = TRUE stands for a file that    *)
(* cannot be read or parsed; its other fields are what the file held       *)
(* before it was damaged.                                                  *)
(***************************************************************************)
NoManifest ==
    [exists |-> FALSE, corrupt |-> FALSE, alcopsVersion |-> "none", alExtensionVersion |-> "none",
     targetFramework |-> "none", files |-> <<>>,
     pendingUpdate |-> FALSE, pendingVersion |-> "none"]

\* (variant) readManifest that hands on whatever the file held
readManifest_Unchecked(m) == IF m.exists THEN m ELSE NoManifest

\* readManifest: the manifest, or null (NoManifest) when the file is missing
\* or when reading or parsing it throws
readManifest(m) == IF m.exists /\ ~m.corrupt THEN m ELSE NoManifest

\* writeManifest: the manifest file after the call (ok), or an exception
\* with the file as it was (fs.writeFileSync threw)
writeManifest(m, new) ==
    {[ok |-> TRUE, manifest |-> new], [ok |-> FALSE, manifest |-> m]}

\* deleteManifest: unlink the file if it exists; a failure is logged
deleteManifest(m) ==
    IF m.exists THEN {NoManifest, m} ELSE {m}

\* (variant) createManifest that records no version
createManifest_NoVersion(alcopsVersion, alExtensionVersion, targetFramework, src) ==
    [exists |-> TRUE, corrupt |-> FALSE, alcopsVersion |-> "unknown",
     alExtensionVersion |-> alExtensionVersion,
     targetFramework |-> targetFramework, files |-> src,
     pendingUpdate |-> FALSE, pendingVersion |-> "none"]

\* createManifest: the file list is fs.readdirSync(sourceLibPath), every
\* entry of the folder, directories included
createManifest(alcopsVersion, alExtensionVersion, targetFramework, src) ==
    [exists |-> TRUE, corrupt |-> FALSE, alcopsVersion |-> alcopsVersion,
     alExtensionVersion |-> alExtensionVersion,
     targetFramework |-> targetFramework, files |-> src,
     pendingUpdate |-> FALSE, pendingVersion |-> "none"]

\* (variant) markAsPendingUpdate that sets the flag without the version
markAsPendingUpdate_FlagOnly(m, pendingVersion) ==
    {o.manifest : o \in writeManifest(m,
        [readManifest(m) EXCEPT !.exists = TRUE, !.pendingUpdate = TRUE])}

\* (variant) markAsPendingUpdate that records the placeholder "latest"
markAsPendingUpdate_Latest(m, pendingVersion) ==
    {o.manifest : o \in writeManifest(m,
        [readManifest(m) EXCEPT !.exists = TRUE, !.pendingUpdate = TRUE,
                                !.pendingVersion = "latest"])}

\* (variant) markAsPendingUpdate that always writes a minimal manifest
markAsPendingUpdate_Rebuilds(m, pendingVersion) ==
    {o.manifest : o \in writeManifest(m,
        [NoManifest EXCEPT !.exists = TRUE, !.alcopsVersion = "unknown",
                           !.alExtensionVersion = "unknown",
                           !.targetFramework = "unknown",
                           !.pendingUpdate = TRUE, !.pendingVersion = pendingVersion])}

\* markAsPendingUpdate: the manifest files the call can leave; a write
\* failure is logged and swallowed
markAsPendingUpdate(m, pendingVersion) ==
    LET old == readManifest(m)
        new == IF ~old.exists
               THEN [exists |-> TRUE, corrupt |-> FALSE, alcopsVersion |-> "unknown",
                     alExtensionVersion |-> "unknown",
                     targetFramework |-> "unknown", files |-> <<>>,
                     pendingUpdate |-> TRUE, pendingVersion |-> pendingVersion]
               ELSE [old EXCEPT !.pendingUpdate = TRUE,
                                !.pendingVersion = pendingVersion]
    IN {o.manifest : o \in writeManifest(m, new)}

\* getPendingUpdate: the pending version, or null ("none"); the flag and the
\* version are tested for truthiness, which an empty string fails
getPendingUpdate(m) ==
    LET old == readManifest(m) IN
    IF old.exists /\ old.pendingUpdate /\ old.pendingVersion \notin {"none", ""}
    THEN old.pendingVersion ELSE "none"

\* (variant) clearPendingUpdate that resets the flag and keeps the version
clearPendingUpdate_KeepsVersion(m) ==
    LET old == readManifest(m) IN
    IF old.exists
    THEN {o.manifest : o \in writeManifest(m, [old EXCEPT !.pendingUpdate = FALSE])}
    ELSE {m}

\* clearPendingUpdate: the manifest files the call can leave; a write
\* failure is logged and swallowed
clearPendingUpdate(m) ==
    LET old == readManifest(m) IN
    IF old.exists
    THEN {o.manifest : o \in writeManifest(m,
              [old EXCEPT !.pendingUpdate = FALSE, !.pendingVersion = "none"])}
    ELSE {m}

(***************************************************************************)
(* Lock detection (file-lock-handler, in src/unnamed/part_000) and         *)
(* verification (verifyAnalyzerInstallation).  fs.existsSync(name) is      *)
(* true of a file of the target directory; the target directory holds no   *)
(* sub-directory.                                                          *)
(***************************************************************************)
existsInTarget(target, e) == e \in Files /\ target[e] # "none"

\* what fs.openSync(filePath, O_RDWR) can give: a descriptor ("ok") or an
\* error code
OpenResults == {"ok", "EACCES", "EPERM", "EBUSY", "EMFILE", "ENOENT"}

\* (variant) isFileLocked that takes every failed open for a lock
isFileLocked_AnyError(opened) == opened # "ok"

\* isFileLocked, from the result of openSync
isFileLocked(opened) == opened \in {"EACCES", "EPERM", "EBUSY"}

\* the files isFileLocked is true of, open[f] being the result of opening f
HeldOpen(open) == {f \in DOMAIN open : isFileLocked(open[f])}

\* (variant) a check that goes through the directory, not the manifest
checkDirectoryForLockedFiles_ScansDirectory(m, target, locked) ==
    SelectSeq(DirOrder, LAMBDA e : existsInTarget(target, e) /\ e \in locked)

\* checkDirectoryForLockedFiles: the lockedFiles list, in manifest order
checkDirectoryForLockedFiles(m, target, locked) ==
    SelectSeq(readManifest(m).files,
              LAMBDA e : existsInTarget(target, e) /\ e \in locked)

NotLocked == [isLocked |-> FALSE, lockedFiles |-> <<>>]

\* checkDirectoryForLockedFiles: the FileLockCheckResult (without reason)
FileLockCheckResult(m, target, open) ==
    LET filesToCheck == readManifest(m).files
        lockedFiles == checkDirectoryForLockedFiles(m, target, HeldOpen(open))
    IN  IF Len(filesToCheck) = 0 THEN NotLocked
        ELSE IF Len(lockedFiles) > 0
        THEN [isLocked |-> TRUE, lockedFiles |-> lockedFiles]
        ELSE NotLocked

\* verifyAnalyzerInstallation(...).isValid
verifyAnalyzerInstallation(m, target) ==
    /\ readManifest(m).exists
    /\ \A e \in Range(readManifest(m).files) : existsInTarget(target, e)

(***************************************************************************)
(* InstallationMutex (al-extension-handler.ts).  A mutex value is          *)
(* [isLocked, queue]; the queue holds the waiting runs in push order.      *)
(***************************************************************************)
\* (variant) acquire() grants the lock although it is taken
acquire_AlwaysGrants(mx, r) ==
    [mutex |-> [mx EXCEPT !.isLocked = TRUE], granted |-> TRUE]

\* acquire() called by run r: [mutex, granted]
acquire(mx, r) ==
    IF ~mx.isLocked
    THEN [mutex |-> [mx EXCEPT !.isLocked = TRUE], granted |-> TRUE]
    ELSE [mutex |-> [mx EXCEPT !.queue = Append(mx.queue, r)], granted |-> FALSE]

\* (variant) release() clears isLocked while it hands the lock over
release_UnlocksOnHandoff(mx) ==
    IF Len(mx.queue) > 0
    THEN [mutex |-> [mx EXCEPT !.queue = Tail(mx.queue), !.isLocked = FALSE],
          next |-> Head(mx.queue)]
    ELSE [mutex |-> [mx EXCEPT !.isLocked = FALSE], next |-> 0]

\* (variant) release() wakes the waiter that came last (pop instead of shift)
release_Lifo(mx) ==
    IF Len(mx.queue) > 0
    THEN [mutex |-> [mx EXCEPT !.queue = SubSeq(mx.queue, 1, Len(mx.queue) - 1)],
          next |-> mx.queue[Len(mx.queue)]]
    ELSE [mutex |-> [mx EXCEPT !.isLocked = FALSE], next |-> 0]

\* release(): [mutex, next]; next is the waiter whose resolve() was called,
\* 0 when the queue was empty
release(mx) ==
    IF Len(mx.queue) > 0
    THEN [mutex |-> [mx EXCEPT !.queue = Tail(mx.queue)], next |-> Head(mx.queue)]
    ELSE [mutex |-> [mx EXCEPT !.isLocked = FALSE], next |-> 0]

\* (variant) withLock releases after a return only (no finally block)
withLockFinally_OnlyOnReturn(mx, threw) ==
    IF threw
    THEN [mutex |-> mx, next |-> 0, calls |-> 0]
    ELSE [mutex |-> release(mx).mutex, next |-> release(mx).next, calls |-> 1]

\* withLock's finally block: release() runs once, whether fn returned or
\* threw; [mutex, next, calls], calls the number of release() calls made
withLockFinally(mx, threw) ==
    [mutex |-> release(mx).mutex, next |-> release(mx).next, calls |-> 1]

(***************************************************************************)
(* State.                                                                  *)
(***************************************************************************)
VARIABLES
    manifest,   \* the manifest file of the target directory
    target,     \* content of the files of the target directory
    backupDirs, \* backup directories in the target: "stale" (older than
                \* maxAge) and "fresh" (left behind by a run)
    mutex,      \* installationMutex: [isLocked, queue]
    run,        \* run[r]: the r-th call of withLock (in Spec: of
                \* downloadALCopsAnalyzers), in the order of the calls
    starts,     \* history: the runs in the order their operation started
    st,         \* SpecStaging: the staging state of the call under way
    stIn,       \* SpecStaging: the call's inputs [src, target, locked]
    act,        \* SpecActivate: the activation of the extension
    pend,       \* SpecPending: the last manifest-store call and its input
    calc        \* SpecLockCheck, SpecChannel, SpecLibFolder: the call of
                \* the function under check, its inputs and its result

vars == <<manifest, target, backupDirs, mutex, run, starts, st, stIn, act, pend, calc>>

diskVars == <<manifest, target, backupDirs>>

runVars == <<mutex, run, starts>>

Callers == 1..MaxCallers

Runs == 1..MaxRuns

PkgFiles == {FileName(i) : i \in 1..NumPkgFiles}

\* version of the host component (the AL extension) in this session, and an
\* earlier one a manifest may record
CurrentHost == "h2"

OlderHost == "h1"

\* what getTargetFramework reads from the host component's assembly
DetectedFramework == "net8.0"

\* run record of a call that has not been made yet
\*   pc        "idle" | "waiting" | "acquired" | "download" | "extract" |
\*             "framework" | "prompt" | "resolve" | "errDialog" | "exiting" |
\*             "done"; in SpecMutex "operation" stands for fn executing
\*   version   the version argument ("none": undefined)
\*   alUpd     alExtensionUpdated
\*   pkg       content tag of the downloaded package
\*   src       listing of the package's matching lib folder
\*   tempDir   the run's temporary directory: "none" (not created), "exists",
\*             "removed", "left" (the removal in the finally block failed)
\*   outcome   how the operation ended; threw: it ended with an exception
\*   released  number of release() calls withLock made for the run
\*   locks     what the lock check before staging found: "none" (not made),
\*             "clear", "found"
\*   recheck   what the lock check after a failed staging found: "none"
\*             (not made), "clear", "locked"
\*   named     the files the thrown lock error names
\*   staged, stResult, leftBackup, decision, handed, duringHandoff, pre:
\*             history of the run (leftBackup: its staging left its backup
\*             directory behind; pre: the disk when the operation started;
\*             handed: "return" or "throw" when the mutex was handed over
\*             by a holder whose operation returned or threw, else "no";
\*             duringHandoff: the call came during a hand-over)
IdleRun ==
    [pc |-> "idle", version |-> "none", alUpd |-> FALSE,
     pkg |-> "none", src |-> <<>>, tempDir |-> "none",
     outcome |-> "none", threw |-> FALSE,
     staged |-> FALSE, stResult |-> "none", decision |-> "none",
     locks |-> "none", recheck |-> "none", named |-> <<>>,
     leftBackup |-> FALSE,
     released |-> 0, handed |-> "no", duringHandoff |-> FALSE,
     pre |-> [manifest |-> NoManifest, target |-> NoFiles]]

\* the run is executing its wrapped operation
OperationPcs ==
    {"operation", "download", "extract", "framework", "prompt", "resolve", "errDialog"}

\* the run was granted the mutex and has not released it
HoldingPcs == {"acquired", "exiting"} \cup OperationPcs

InOperation(r) == run[r].pc \in OperationPcs

Holding(r) == run[r].pc \in HoldingPcs

(***************************************************************************)
(* downloadALCopsAnalyzersInternal (version-manager.ts), one operator per  *)
(* synchronous segment.  An effect e is what a segment leaves:             *)
(* [manifest, target, backupDirs, rr] with rr the run's record.  Each      *)
(* operator gives the set of effects the segment can have.                 *)
(***************************************************************************)
PkgEntries == PkgFiles \cup {SubDir}

\* VersionManager.hasALExtensionChanged
hasALExtensionChanged(m) ==
    ~readManifest(m).exists \/ readManifest(m).alExtensionVersion # CurrentHost

\* (variant) a finally block that cleans up after an error only
finallyBlock_OnErrorOnly(e) ==
    IF e.rr.pc = "exiting" /\ e.rr.tempDir = "exists" /\ e.rr.threw
    THEN {[e EXCEPT !.rr.tempDir = "removed"], [e EXCEPT !.rr.tempDir = "left"]}
    ELSE {e}

\* the finally block (lines 658-667), run when the function is left: the
\* temporary directory, if there is one, is removed; a failure of rmSync
\* is logged and leaves it
finallyBlock(e) ==
    IF e.rr.pc = "exiting" /\ e.rr.tempDir = "exists"
    THEN {[e EXCEPT !.rr.tempDir = "removed"], [e EXCEPT !.rr.tempDir = "left"]}
    ELSE {e}

\* the effects of a segment, the finally block included where it leaves
\* the function
pipelineFinally(E) == UNION {finallyBlock(e) : e \in E}

\* a return statement of the try block
pipelineReturn(e, outcome) ==
    [e EXCEPT !.rr.pc = "exiting", !.rr.outcome = outcome]

\* the catch block (targetPath set): with locked
\* files the error dialog is awaited before the error is rethrown
pipelineCatch(e, lk, kind) ==
    IF checkDirectoryForLockedFiles(e.manifest, e.target, lk) # <<>>
    THEN [e EXCEPT !.rr.pc = "errDialog", !.rr.outcome = kind, !.rr.threw = TRUE]
    ELSE [e EXCEPT !.rr.pc = "exiting", !.rr.outcome = kind, !.rr.threw = TRUE]

\* lines 608-640: create and write the manifest, clear the pending flag,
\* sweep old backups, remove the temporary directory.  createManifest's
\* readdirSync and writeManifest can throw, both before the file is written.
pipelineCommit(e, lk, manifestVersion) ==
    LET new == createManifest(manifestVersion, CurrentHost, DetectedFramework, e.rr.src) IN
    UNION {
        IF ~w.ok
        THEN {pipelineCatch(e, lk, "manifestWrite")}
        ELSE {pipelineReturn([e EXCEPT !.manifest = m, !.backupDirs = b], "committed")
              : m \in clearPendingUpdate(w.manifest),
                b \in {e.backupDirs \ {"stale"}, e.backupDirs}}
        : w \in writeManifest(e.manifest, new)}

\* lines 595-606, then the commit: stageAndReplaceFiles and what follows
pipelineStage(e, lk) ==
    UNION {
        LET e1 == [e EXCEPT !.target = o.target,
                            !.backupDirs = IF o.bdir THEN @ \cup {"fresh"} ELSE @,
                            !.rr.staged = TRUE, !.rr.stResult = o.result.kind,
                            !.rr.leftBackup = o.bdir]
        IN  IF o.result.kind = "threw"
            THEN {pipelineCatch(e1, lk, "stagingThrew")}
            ELSE IF ~o.result.success
            THEN LET newLockCheck ==
                         checkDirectoryForLockedFiles(e1.manifest, e1.target, lk)
                 IN  IF newLockCheck # <<>>
                     THEN {pipelineCatch([e1 EXCEPT !.rr.recheck = "locked",
                                                    !.rr.named = newLockCheck],
                                         lk, "lockError")}
                     ELSE {pipelineCatch([e1 EXCEPT !.rr.recheck = "clear"],
                                         lk, "stagingError")}
            ELSE IF e.rr.version = "none"
            THEN {[e1 EXCEPT !.rr.pc = "resolve"]}   \* await queryLatestVersion
            ELSE pipelineCommit(e1, lk, e.rr.version)
        : o \in stageAndReplaceFiles(e.rr.src, e.target, lk, e.rr.pkg)}

\* (variant) the validity check that does not look at the host version
pipelineStart_IgnoresHost(e) ==
    {[e EXCEPT !.rr.pc = "exiting", !.rr.outcome = "noHost", !.rr.threw = TRUE]}
    \cup {IF e.rr.version = "none" /\ verifyAnalyzerInstallation(e.manifest, e.target)
          THEN pipelineReturn(e, "alreadyValid")
          ELSE [e EXCEPT !.rr.pc = "download", !.rr.tempDir = "exists"]}

\* (variant) a start that clears the manifest whatever the host version
pipelineStart_DeletesAlways(e) ==
    {[e EXCEPT !.rr.pc = "exiting", !.rr.outcome = "noHost", !.rr.threw = TRUE]}
    \cup {[e EXCEPT !.manifest = m, !.rr.alUpd = hasALExtensionChanged(e.manifest),
                    !.rr.pc = "download", !.rr.tempDir = "exists"]
          : m \in deleteManifest(e.manifest)}

\* lines 502-547: up to the await of downloadFile (every caller of the
\* repository passes its VersionManager)
pipelineStart(e) ==
    LET alUpd == hasALExtensionChanged(e.manifest)
        cleared == IF alUpd
                   THEN {[e EXCEPT !.manifest = m, !.rr.alUpd = TRUE]
                         : m \in deleteManifest(e.manifest)}
                   ELSE {e}
    IN  \* the host component is not installed: thrown before targetPath is set
        {[e EXCEPT !.rr.pc = "exiting", !.rr.outcome = "noHost", !.rr.threw = TRUE]}
        \cup {IF ~alUpd /\ x.rr.version = "none"
                 /\ verifyAnalyzerInstallation(x.manifest, x.target)
              THEN pipelineReturn(x, "alreadyValid")
              ELSE [x EXCEPT !.rr.pc = "download", !.rr.tempDir = "exists"]
              : x \in cleared}

\* downloadFile settles: the package of the requested version (of any
\* version when none or no published version was named), or a failure
pipelineDownload(e, lk) ==
    {pipelineCatch(e, lk, "network")}
    \cup {[e EXCEPT !.rr.pc = "extract", !.rr.pkg = v]
          : v \in IF e.rr.version \in Versions THEN {e.rr.version} ELSE Versions}

\* extractZip settles
pipelineExtract(e, lk) ==
    {pipelineCatch(e, lk, "extract"), [e EXCEPT !.rr.pc = "framework"]}

\* getTargetFramework settles; lines 558-593: the lib folder is matched and
\* read, locks are checked, and without locks staging follows at once
pipelineFramework(e, lk) ==
    {pipelineCatch(e, lk, "framework"), pipelineCatch(e, lk, "noMatch")}
    \cup UNION {
        LET isLocked == checkDirectoryForLockedFiles(e.manifest, e.target, lk) # <<>>
            e1 == [e EXCEPT !.rr.src = Listing(S),
                            !.rr.locks = IF isLocked THEN "found" ELSE "clear"]
        IN
        IF isLocked
        THEN {[e1 EXCEPT !.rr.pc = "prompt"]}     \* await the caller's decision
        ELSE pipelineStage(e1, lk)
        : S \in SUBSET PkgEntries}

\* (variant) a cancelled run that records the version as pending
pipelinePrompt_CancelMarks(e, lk, choice) ==
    LET e1 == [e EXCEPT !.rr.decision = choice] IN
    CASE choice = "defer" ->
            {pipelineReturn([e1 EXCEPT !.manifest = m], "deferred")
             : m \in markAsPendingUpdate(e.manifest,
                        IF e.rr.version = "none" THEN "latest" ELSE e.rr.version)}
      [] choice = "cancel" ->
            {pipelineCatch([e1 EXCEPT !.manifest = m], lk, "cancelled")
             : m \in markAsPendingUpdate(e.manifest, "latest")}
      [] OTHER -> pipelineStage(e1, lk)

\* (variant) a run that stages after a decision to defer
pipelinePrompt_DeferStages(e, lk, choice) ==
    LET e1 == [e EXCEPT !.rr.decision = choice] IN
    CASE choice = "defer" ->
            UNION {pipelineStage([e1 EXCEPT !.manifest = m], lk)
                   : m \in markAsPendingUpdate(e.manifest,
                              IF e.rr.version = "none" THEN "latest" ELSE e.rr.version)}
      [] choice = "cancel" -> {pipelineCatch(e1, lk, "cancelled")}
      [] OTHER -> pipelineStage(e1, lk)

\* promptUserForLockedFiles settles with the caller's decision
pipelinePrompt(e, lk, choice) ==
    LET e1 == [e EXCEPT !.rr.decision = choice] IN
    CASE choice = "defer" ->
            {pipelineReturn([e1 EXCEPT !.manifest = m], "deferred")
             : m \in markAsPendingUpdate(e.manifest,
                        IF e.rr.version = "none" THEN "latest" ELSE e.rr.version)}
      [] choice = "cancel" -> {pipelineCatch(e1, lk, "cancelled")}
      [] OTHER -> pipelineStage(e1, lk)

\* queryLatestVersion('stable') settles (null gives "unknown"), then the commit
pipelineResolve(e, lk) ==
    UNION {pipelineCommit(e, lk, v) : v \in Versions \cup {"unknown"}}

\* showLockedFilesError settles: the error is rethrown, then the finally block
pipelineErrDialog(e) ==
    {[e EXCEPT !.rr.pc = "exiting"]}

(***************************************************************************)
(* Spec: the actions.                                                      *)
(***************************************************************************)
Effect(r) ==
    [manifest |-> manifest, target |-> target, backupDirs |-> backupDirs, rr |-> run[r]]

Apply(r, e) ==
    /\ manifest' = e.manifest
    /\ target' = e.target
    /\ backupDirs' = e.backupDirs
    /\ run' = [run EXCEPT ![r] = e.rr]

\* the target files another process can hold open
Lockable(t) == {f \in PkgFiles : t[f] # "none"}

\* withLock(fn) is called for run r: it runs up to its await, acquire()
\* included
Arrive(r, v) ==
    /\ run[r].pc = "idle"
    /\ \A q \in DOMAIN run : q < r => run[q].pc # "idle"   \* numbered by arrival
    /\ LET a == acquire(mutex, r) IN
          /\ mutex' = a.mutex
          /\ run' = [run EXCEPT ![r] =
                        [IdleRun EXCEPT !.pc = IF a.granted THEN "acquired" ELSE "waiting",
                                        !.version = v,
                                        !.duringHandoff =
                                            \E q \in DOMAIN run :
                                                run[q].pc = "acquired" /\ run[q].handed # "no"]]
    /\ UNCHANGED <<diskVars, starts, st, stIn, pend, calc>>

\* a trigger calls downloadALCopsAnalyzers(version, versionManager).  The
\* version is a published one, undefined, or (the activation retry) the
\* recorded pending version.
Call(r) ==
    /\ \E v \in Versions \cup {"none", getPendingUpdate(manifest)} : Arrive(r, v)
    /\ UNCHANGED <<act, pend, calc>>

\* withLock resumes after acquire(): fn() starts
Start(r) ==
    /\ run[r].pc = "acquired"
    /\ \E e \in pipelineFinally(pipelineStart([Effect(r) EXCEPT
                                  !.rr.pre = [manifest |-> manifest, target |-> target]])) :
          Apply(r, e)
    /\ starts' = Append(starts, r)
    /\ UNCHANGED <<mutex, st, stIn, act, pend, calc>>

\* the steps below resume after an await; the files other processes hold
\* open at that time are any of the existing ones
Download(r) ==
    /\ run[r].pc = "download"
    /\ \E lk \in SUBSET Lockable(target) :
          \E e \in pipelineFinally(pipelineDownload(Effect(r), lk)) : Apply(r, e)
    /\ UNCHANGED <<mutex, starts, st, stIn, act, pend, calc>>

Extract(r) ==
    /\ run[r].pc = "extract"
    /\ \E lk \in SUBSET Lockable(target) :
          \E e \in pipelineFinally(pipelineExtract(Effect(r), lk)) : Apply(r, e)
    /\ UNCHANGED <<mutex, starts, st, stIn, act, pend, calc>>

Framework(r) ==
    /\ run[r].pc = "framework"
    /\ \E lk \in SUBSET Lockable(target) :
          \E e \in pipelineFinally(pipelineFramework(Effect(r), lk)) : Apply(r, e)
    /\ UNCHANGED <<mutex, starts, st, stIn, act, pend, calc>>

Prompt(r) ==
    /\ run[r].pc = "prompt"
    /\ \E choice \in {"reload", "defer", "cancel"}, lk \in SUBSET Lockable(target) :
          \E e \in pipelineFinally(pipelinePrompt(Effect(r), lk, choice)) : Apply(r, e)
    /\ UNCHANGED <<mutex, starts, st, stIn, act, pend, calc>>

Resolve(r) ==
    /\ run[r].pc = "resolve"
    /\ \E lk \in SUBSET Lockable(target) :
          \E e \in pipelineFinally(pipelineResolve(Effect(r), lk)) : Apply(r, e)
    /\ UNCHANGED <<mutex, starts, st, stIn, act, pend, calc>>

ErrDialog(r) ==
    /\ run[r].pc = "errDialog"
    /\ \E e \in pipelineFinally(pipelineErrDialog(Effect(r))) : Apply(r, e)
    /\ UNCHANGED <<mutex, starts, st, stIn, act, pend, calc>>

\* fn() has settled: withLock's finally block.  The call is over: of its
\* record only the number of release() calls is kept.
Release(r) ==
    /\ run[r].pc = "exiting"
    /\ LET rel == withLockFinally(mutex, run[r].threw) IN
          /\ mutex' = rel.mutex
          /\ run' = [q \in DOMAIN run |->
                        IF q = r
                        THEN [IdleRun EXCEPT !.pc = "done", !.released = rel.calls]
                        ELSE IF q = rel.next
                        THEN [run[q] EXCEPT !.pc = "acquired",
                                            !.handed = IF run[r].threw THEN "throw"
                                                                       ELSE "return"]
                        ELSE run[q]]
    /\ UNCHANGED <<diskVars, starts, st, stIn, act, pend, calc>>

\* a staging state that stays put in Spec
IdleStaging == StagingBegin(NoFiles)

\* no call of a function under check made
IdleCalc == [op |-> "none"]

\* no pending-marker call made (see SpecPending)
IdlePend == [last |-> "none", v |-> "none", before |-> NoManifest, clears |-> 0]

\* a marker a deferred run of an earlier session can have left
PendingVersions == Versions \cup {"latest"}

\* the activation record (see SpecActivate) before activate() is called
IdleAct ==
    [pc |-> "start", pending |-> "none", completed |-> FALSE, retry |-> "none",
     afterRetry |-> "none", retryOutcome |-> "none",
     resolved |-> FALSE, lastCheck |-> FALSE,
     latest |-> "none", started |-> <<>>]

IdleStagingIn == [src |-> <<>>, target |-> NoFiles, locked |-> {}]

\* a package installed by an earlier session
InstalledManifest(host) ==
    createManifest("v1", host, DetectedFramework, Listing(PkgFiles))

InstalledTarget == [f \in Files |-> IF f \in PkgFiles THEN "v1" ELSE "none"]

Init ==
    /\ \/ manifest = NoManifest /\ target = NoFiles
       \/ \E host \in {CurrentHost, OlderHost} :
             manifest = InstalledManifest(host) /\ target = InstalledTarget
    /\ backupDirs \in {{}, {"stale"}}
    /\ mutex = [isLocked |-> FALSE, queue |-> <<>>]
    /\ run = [r \in Runs |-> IdleRun]
    /\ starts = <<>>
    /\ st = IdleStaging
    /\ stIn = IdleStagingIn
    /\ act = IdleAct
    /\ pend = IdlePend
    /\ calc = IdleCalc

Next ==
    \/ \E r \in Runs : Call(r)
    \/ \E r \in Runs : Start(r)
    \/ \E r \in Runs : Download(r)
    \/ \E r \in Runs : Extract(r)
    \/ \E r \in Runs : Framework(r)
    \/ \E r \in Runs : Prompt(r)
    \/ \E r \in Runs : Resolve(r)
    \/ \E r \in Runs : ErrDialog(r)
    \/ \E r \in Runs : Release(r)

Spec == Init /\ [][Next]_vars

(***************************************************************************)
(* SpecMutex: withLock(fn) called concurrently, fn any operation that      *)
(* returns or throws.                                                      *)
(***************************************************************************)
MutexCall(c) == Arrive(c, "none") /\ UNCHANGED <<act, pend, calc>>

\* withLock resumes after acquire(): fn() starts
OperationStart(c) ==
    /\ run[c].pc = "acquired"
    /\ run' = [run EXCEPT ![c].pc = "operation"]
    /\ starts' = Append(starts, c)
    /\ UNCHANGED <<diskVars, mutex, st, stIn, act, pend, calc>>

\* fn() returns or throws
OperationSettle(c) ==
    /\ run[c].pc = "operation"
    /\ \E threw \in BOOLEAN :
          run' = [run EXCEPT ![c].pc = "exiting", ![c].threw = threw]
    /\ UNCHANGED <<diskVars, mutex, starts, st, stIn, act, pend, calc>>

InitMutex ==
    /\ manifest = NoManifest
    /\ target = NoFiles
    /\ backupDirs = {}
    /\ mutex = [isLocked |-> FALSE, queue |-> <<>>]
    /\ run = [c \in Callers |-> IdleRun]
    /\ starts = <<>>
    /\ st = IdleStaging
    /\ stIn = IdleStagingIn
    /\ act = IdleAct
    /\ pend = IdlePend
    /\ calc = IdleCalc

NextMutex ==
    \/ \E c \in Callers : MutexCall(c)
    \/ \E c \in Callers : OperationStart(c)
    \/ \E c \in Callers : OperationSettle(c)
    \/ \E c \in Callers : Release(c)

SpecMutex == InitMutex /\ [][NextMutex]_vars

(***************************************************************************)
(* SpecStaging: one call of stageAndReplaceFiles on every bounded input.   *)
(***************************************************************************)
\* content of the package being staged in SpecStaging
StagedVersion == "v2"

InitStaging ==
    /\ \E S \in SUBSET Entries, t \in [Files -> {"none", "v1"}], L \in SUBSET Files :
          /\ \A f \in L : t[f] # "none"
          /\ stIn = [src |-> Listing(S), target |-> t, locked |-> L]
          /\ st = StagingBegin(t)
    /\ manifest = NoManifest
    /\ target = NoFiles
    /\ backupDirs = {}
    /\ mutex = [isLocked |-> FALSE, queue |-> <<>>]
    /\ run = [r \in Runs |-> IdleRun]
    /\ starts = <<>>
    /\ act = IdleAct
    /\ pend = IdlePend
    /\ calc = IdleCalc

StagingStep ==
    /\ st.pc # "return"
    /\ st' \in stagingNext(st, stIn.src, stIn.locked, StagedVersion)
    /\ UNCHANGED <<stIn, diskVars, runVars, act, pend, calc>>

NextStaging == StagingStep

SpecStaging == InitStaging /\ [][NextStaging]_vars

(***************************************************************************)
(* SpecActivate: activate() (src/unnamed/part_000) and the update check it *)
(* starts (AutoUpdater.checkAndNotifyUpdates).  The install runs it starts *)
(* are runs of the pipeline above, one at a time, in run[1], each with an  *)
(* explicit version.  act:                                                 *)
(*   pc         "start" | "retry" | "check" | "recover" | "resolve" |      *)
(*              "notify" | "install" | "active"                            *)
(*   pending    pendingVersion, as read at activation                      *)
(*   completed  pendingInstallationCompleted                               *)
(*   retry      "ok" | "failed" once the retried install has settled       *)
(*   afterRetry what getPendingUpdate gives when the retry has settled     *)
(*   retryOutcome how the retried install run ended (its outcome)          *)
(*   resolved   queryLatestVersion has been called                         *)
(*   lastCheck  setLastCheckTime has been called                           *)
(*   latest     the version the update check resolved                      *)
(*   started    history: the install runs started, [version, by, resolved] *)
(***************************************************************************)
\* (variant) a retry that passes no explicit version
retryVersion_Unversioned(pendingVersion) == "none"

\* the version argument of the retried install (part_000 line 35)
retryVersion(pendingVersion) == pendingVersion

\* VersionManager.getInstalledALCopsVersionFromManifest (null: "none")
getInstalledALCopsVersionFromManifest(m) ==
    IF readManifest(m).exists THEN readManifest(m).alcopsVersion ELSE "none"

\* VersionManager.isNewVersionAvailable
isNewVersionAvailable(m, latestVersion) ==
    \/ getInstalledALCopsVersionFromManifest(m) = "none"
    \/ getInstalledALCopsVersionFromManifest(m) # latestVersion

\* downloadALCopsAnalyzers(version, versionManager) is called by the
\* activation code at call site by
StartRun(version, by, a) ==
    /\ Arrive(1, version)
    /\ act' = [a EXCEPT !.started = Append(@, [version |-> version, by |-> by,
                                                 resolved |-> a.resolved])]

\* the awaited install run settles: withLock's finally block, then the
\* continuation of the caller with activation record a
SettleRun(a) ==
    /\ run[1].pc = "exiting"
    /\ mutex' = withLockFinally(mutex, run[1].threw).mutex
    /\ run' = [run EXCEPT ![1] = IdleRun]
    /\ act' = a
    /\ UNCHANGED <<diskVars, starts, st, stIn, pend, calc>>

\* shouldCheckForUpdates() and what follows it in checkAndNotifyUpdates, up
\* to the await of queryLatestVersion
afterRecovery(a, shouldCheck) ==
    IF shouldCheck THEN [a EXCEPT !.pc = "resolve", !.resolved = TRUE]
    ELSE [a EXCEPT !.pc = "active"]

\* activate(), lines 24-35: the pending version is read and, if there is
\* one, installed
ActivateStart ==
    /\ act.pc = "start"
    /\ LET pendingVersion == getPendingUpdate(manifest) IN
       IF pendingVersion # "none"
       THEN StartRun(retryVersion(pendingVersion), "retry",
                     [act EXCEPT !.pc = "retry", !.pending = pendingVersion])
       ELSE /\ act' = [act EXCEPT !.pc = "check"]
            /\ UNCHANGED <<diskVars, runVars, st, stIn, pend, calc>>

\* lines 35-42 and 76-80: the retried install has settled
RetrySettled ==
    /\ act.pc = "retry"
    /\ SettleRun([act EXCEPT !.pc = IF run[1].threw THEN "check" ELSE "active",
                             !.completed = ~run[1].threw,
                             !.retry = IF run[1].threw THEN "failed" ELSE "ok",
                             !.afterRetry = getPendingUpdate(manifest),
                             !.retryOutcome = run[1].outcome])

\* checkAndNotifyUpdates, lines 12-44: up to its first await
UpdateCheck ==
    /\ act.pc = "check"
    /\ \E automaticUpdates, shouldCheck \in BOOLEAN :
          LET installedVersion == getInstalledALCopsVersionFromManifest(manifest) IN
          IF ~automaticUpdates
          THEN /\ act' = [act EXCEPT !.pc = "active"]
               /\ UNCHANGED <<diskVars, runVars, st, stIn, pend, calc>>
          ELSE IF ~verifyAnalyzerInstallation(manifest, target) /\ installedVersion # "none"
          THEN StartRun(installedVersion, "recover", [act EXCEPT !.pc = "recover"])
          ELSE /\ act' = afterRecovery(act, shouldCheck)
               /\ UNCHANGED <<diskVars, runVars, st, stIn, pend, calc>>

\* lines 30-41: the recovery install has settled
RecoverSettled ==
    /\ act.pc = "recover"
    /\ \E shouldCheck \in BOOLEAN :
          SettleRun(IF run[1].threw THEN afterRecovery(act, shouldCheck)
                                    ELSE [act EXCEPT !.pc = "active"])

\* (variant) a check that stamps the time of the check whatever the query gave
afterQuery_StampsAlways(a, latestVersion) ==
    IF latestVersion = "none" THEN [a EXCEPT !.pc = "active", !.lastCheck = TRUE]
    ELSE [a EXCEPT !.lastCheck = TRUE, !.latest = latestVersion]

\* lines 47-54: without a latest version the check returns; with one,
\* setLastCheckTime is called
afterQuery(a, latestVersion) ==
    IF latestVersion = "none" THEN [a EXCEPT !.pc = "active"]
    ELSE [a EXCEPT !.lastCheck = TRUE, !.latest = latestVersion]

\* lines 44-70: queryLatestVersion has settled
ResolveLatest ==
    /\ act.pc = "resolve"
    /\ \E latestVersion \in Versions \cup {"none"},
          updateNotification \in {"auto-install", "notify-only", "manual"} :
          IF latestVersion = "none"
          THEN /\ act' = afterQuery(act, latestVersion)
               /\ UNCHANGED <<diskVars, runVars, st, stIn, pend, calc>>
          ELSE LET a == afterQuery(act, latestVersion) IN
               IF ~isNewVersionAvailable(manifest, latestVersion)
                  \/ updateNotification = "manual"
               THEN /\ act' = [a EXCEPT !.pc = "active"]
                    /\ UNCHANGED <<diskVars, runVars, st, stIn, pend, calc>>
               ELSE IF updateNotification = "auto-install"
               THEN StartRun(latestVersion, "update", [a EXCEPT !.pc = "install"])
               ELSE /\ act' = [a EXCEPT !.pc = "notify"]
                    /\ UNCHANGED <<diskVars, runVars, st, stIn, pend, calc>>

\* notifyUserAboutUpdate, lines 96-121: the notification has settled
NotifySettled ==
    /\ act.pc = "notify"
    /\ \E result \in {"Install Now", "Remind Later", "Never"} :
          IF result = "Install Now"
          THEN StartRun(act.latest, "update", [act EXCEPT !.pc = "install"])
          ELSE /\ act' = [act EXCEPT !.pc = "active"]
               /\ UNCHANGED <<diskVars, runVars, st, stIn, pend, calc>>

\* autoInstallUpdate / installUpdate: the install has settled
InstallSettled ==
    /\ act.pc = "install"
    /\ SettleRun([act EXCEPT !.pc = "active"])

InitActivate ==
    /\ \/ manifest = NoManifest /\ target \in {NoFiles, InstalledTarget}
       \/ \E host \in {CurrentHost, OlderHost}, pv \in PendingVersions \cup {"none"} :
             /\ manifest = [InstalledManifest(host) EXCEPT
                               !.pendingUpdate = (pv # "none"), !.pendingVersion = pv]
             /\ target \in {InstalledTarget, NoFiles}
    /\ backupDirs = {}
    /\ mutex = [isLocked |-> FALSE, queue |-> <<>>]
    /\ run = [r \in {1} |-> IdleRun]
    /\ starts = <<>>
    /\ st = IdleStaging
    /\ stIn = IdleStagingIn
    /\ act = IdleAct
    /\ pend = IdlePend
    /\ calc = IdleCalc

NextActivate ==
    \/ ActivateStart
    \/ RetrySettled
    \/ UpdateCheck
    \/ RecoverSettled
    \/ ResolveLatest
    \/ NotifySettled
    \/ InstallSettled
    \/ Start(1)
    \/ Download(1)
    \/ Extract(1)
    \/ Framework(1)
    \/ Prompt(1)
    \/ ErrDialog(1)

SpecActivate == InitActivate /\ [][NextActivate]_vars

(***************************************************************************)
(* SpecPending: the operations of the engine on the manifest file (the     *)
(* write of a committed installation, markAsPendingUpdate,                 *)
(* clearPendingUpdate, deleteManifest) called in any order on any manifest *)
(* file.  pend: last ("write" | "mark" | "clear" | "delete"), v (the       *)
(* version marked or installed), before (the manifest before the last      *)
(* call), clears (the number of clears in a row, up to MaxClears).         *)
(***************************************************************************)
\* the version strings passed to markAsPendingUpdate
VersionStrings == Versions \cup {"latest", ""}

\* the manifest files a directory can hold: none, the minimal manifest of a
\* marker without installation, an installation with or without a marker
ManifestStates ==
    {NoManifest}
    \cup UNION {markAsPendingUpdate(NoManifest, v) : v \in VersionStrings}
    \cup {[InstalledManifest(host) EXCEPT !.pendingUpdate = (pv # "none"),
                                          !.pendingVersion = pv,
                                          !.corrupt = c]
          : host \in {CurrentHost, OlderHost}, pv \in PendingVersions \cup {"none"},
            c \in BOOLEAN}

\* lines 613-619 of the install run: the manifest of the installed package
\* is created and written
WriteCommitted(v) ==
    /\ manifest' \in {o.manifest : o \in writeManifest(manifest,
            createManifest(v, CurrentHost, DetectedFramework, Listing(PkgFiles)))}
    /\ pend' = [last |-> "write", v |-> v, before |-> manifest, clears |-> 0]
    /\ UNCHANGED <<target, backupDirs, runVars, st, stIn, act, calc>>

DeleteStale ==
    /\ manifest' \in deleteManifest(manifest)
    /\ pend' = [last |-> "delete", v |-> "none", before |-> manifest, clears |-> 0]
    /\ UNCHANGED <<target, backupDirs, runVars, st, stIn, act, calc>>

MarkPending(v) ==
    /\ manifest' \in markAsPendingUpdate(manifest, v)
    /\ pend' = [last |-> "mark", v |-> v, before |-> manifest, clears |-> 0]
    /\ UNCHANGED <<target, backupDirs, runVars, st, stIn, act, calc>>

ClearPending ==
    /\ manifest' \in clearPendingUpdate(manifest)
    /\ pend' = [last |-> "clear", v |-> "none", before |-> manifest,
                clears |-> IF pend.clears < MaxClears THEN pend.clears + 1 ELSE MaxClears]
    /\ UNCHANGED <<target, backupDirs, runVars, st, stIn, act, calc>>

InitPending ==
    /\ manifest \in ManifestStates
    /\ target \in {NoFiles, InstalledTarget}
    /\ backupDirs = {}
    /\ mutex = [isLocked |-> FALSE, queue |-> <<>>]
    /\ run = [r \in Runs |-> IdleRun]
    /\ starts = <<>>
    /\ st = IdleStaging
    /\ stIn = IdleStagingIn
    /\ act = IdleAct
    /\ pend = IdlePend
    /\ calc = IdleCalc

NextPending ==
    \/ \E v \in VersionStrings : MarkPending(v)
    \/ ClearPending
    \/ \E v \in Versions : WriteCommitted(v)
    \/ DeleteStale

SpecPending == InitPending /\ [][NextPending]_vars

(***************************************************************************)
(* Claims about stageAndReplaceFiles (checked under SpecStaging).          *)
(***************************************************************************)
StagingReturned == st.pc = "return"

\* the files that existed in the target before the call
PreExisting == {f \in Files : stIn.target[f] # "none"}

\* C4 (as stated).  When stageAndReplaceFiles returns after a per-file copy
\* failure, every file that existed in the target before staging has exactly
\* its pre-staging content.
C4_RollbackRestoresAll ==
    (StagingReturned /\ st.result.kind = "partial")
        => \A f \in PreExisting : st.target[f] = stIn.target[f]

\* C4 (amended).  When stageAndReplaceFiles returns after a per-file copy
\* failure, every file that existed in the target before staging has exactly
\* its pre-staging content, except the files whose copy back from the backup
\* directory failed during the best-effort rollback (all of them when the
\* backup directory could not be listed).
C4_RollbackRestoresUnlessRollbackFailed ==
    (StagingReturned /\ st.result.kind = "partial" /\ "readdir" \notin st.rbErrors)
        => \A f \in PreExisting \ st.rbErrors : st.target[f] = stIn.target[f]

\* C4 witness: a call failed on its last file after replacing two files that
\* existed before, and the rollback restored them.
C4_Witness ==
    /\ StagingReturned
    /\ st.result.kind = "partial"
    /\ st.rbErrors = {}
    /\ Len(st.replaced) >= 2
    /\ \A i \in 1..Len(st.replaced) : st.replaced[i] \in PreExisting
    /\ \A f \in PreExisting : st.target[f] = stIn.target[f]

\* C5.  Replacement is all-or-nothing: when stageAndReplaceFiles returns, a
\* reported success leaves every staged file with its new content, and a
\* reported per-file failure leaves the target directory equal to its
\* pre-staging state, files that did not exist before staging included.
\* (Stated for the calls whose rollback met no error of its own.)
C5_AllOrNothing ==
    StagingReturned =>
        /\ st.result.kind = "success" =>
               \A f \in Range(sourceFilesOf(stIn.src)) : st.target[f] = StagedVersion
        /\ (st.result.kind = "partial" /\ st.rbErrors = {}) =>
               st.target = stIn.target

(***************************************************************************)
(* Claims about the installation mutex (checked under SpecMutex).          *)
(***************************************************************************)
\* the callers whose wrapped operation is executing
Executing == {c \in DOMAIN run : InOperation(c)}

\* C1: at no time are two operations wrapped by the installation mutex
\* executing at once, whatever the number of concurrent callers; this
\* covers the hand-over from a releasing holder to the next waiter and a
\* caller that arrives during the hand-over.
C1_MutualExclusion == Cardinality(Executing) <= 1

\* a handed-over waiter executes while a caller that arrived during the
\* hand-over waits in the queue
C1_Witness ==
    \E b, c \in DOMAIN run :
        /\ InOperation(b) /\ run[b].handed # "no"
        /\ run[c].pc = "waiting" /\ run[c].duringHandoff

\* C2: the wrapped operations start in the order in which their callers
\* called the mutex (callers are numbered by their call); a caller that
\* arrives while the lock is being handed over starts after every caller
\* queued before it.
C2_FifoStarts ==
    /\ \A i \in 1..Len(starts) : starts[i] = i
    /\ \A i \in 1..Len(mutex.queue) : \A j \in 1..Len(mutex.queue) :
           i < j => mutex.queue[i] < mutex.queue[j]

\* a caller that arrived during a hand-over has started, third or later,
\* after the callers before it
C2_Witness ==
    \E c \in DOMAIN run :
        /\ run[c].duringHandoff /\ InOperation(c)
        /\ Len(starts) >= 3 /\ starts[Len(starts)] = c

(***************************************************************************)
(* Claims about the pipeline run (checked under Spec).                     *)
(***************************************************************************)
\* C3: every run of the pipeline releases the mutex exactly once on each of
\* its exits (commit, early success, defer, cancel and every failure), and
\* the next queued caller is then allowed to start: a run has released once
\* when it is done and not before, the waiting runs are the queued ones,
\* and the mutex is taken exactly while some run holds it.
C3_ReleasedExactlyOnce ==
    /\ \A r \in DOMAIN run : run[r].released = IF run[r].pc = "done" THEN 1 ELSE 0
    /\ \A r \in DOMAIN run : run[r].pc = "waiting" <=> r \in Range(mutex.queue)
    /\ mutex.isLocked <=> \E h \in DOMAIN run : Holding(h)
    /\ mutex.queue # <<>> => mutex.isLocked

\* a run that ended with an error has released, and the run that waited
\* behind it is executing
C3_Witness ==
    \E r, q \in DOMAIN run :
        /\ run[r].pc = "done" /\ run[r].released = 1
        /\ run[q].handed = "throw" /\ InOperation(q)

\* C6: the manifest, the pending marker in it and the target files change
\* only in steps of one run that holds the mutex, and at most one run holds
\* it at a time.
C6_MutationsUnderMutex ==
    /\ [](Cardinality({r \in DOMAIN run : Holding(r)}) <= 1)
    /\ [][(manifest' # manifest \/ target' # target \/ backupDirs' # backupDirs)
            => \E r \in DOMAIN run :
                  /\ InOperation(r) \/ run[r].pc = "acquired"
                  /\ mutex.isLocked /\ mutex' = mutex
                  /\ run'[r] # run[r]
                  /\ \A q \in DOMAIN run \ {r} : run'[q] = run[q] /\ ~Holding(q)]_vars

\* a run has committed a new manifest while another run waits for the mutex
C6_Witness ==
    \E r, q \in DOMAIN run :
        /\ run[r].outcome = "committed" /\ manifest # run[r].pre.manifest
        /\ run[q].pc = "waiting"

\* the run has left the pipeline (the finally block has run) and is about
\* to release the mutex
Ended(r) == run[r].pc = "exiting"

\* the run asked for a published version over a valid installation
UpdatesValidInstall(r) ==
    /\ run[r].version \in Versions
    /\ verifyAnalyzerInstallation(run[r].pre.manifest, run[r].pre.target)

\* what a committed run leaves: the manifest of the new package, no pending
\* version, the files of the matching folder with the new content, and no
\* backup directory of the run
CommitPostcondition(r) ==
    /\ manifest.exists
    /\ manifest.alcopsVersion = run[r].version
    /\ manifest.targetFramework = DetectedFramework
    /\ manifest.files = run[r].src
    /\ getPendingUpdate(manifest) = "none"
    /\ \A f \in Range(sourceFilesOf(run[r].src)) : target[f] = run[r].version
    /\ ~run[r].leftBackup

FailureOutcomes == {"network", "extract", "noMatch", "stagingError", "lockError", "stagingThrew"}

\* C8: a run that ends with a download, extraction, no-matching-folder or
\* staging error leaves the manifest as it was before the run, also when the
\* host version differs from the one the manifest records.
C8_NoManifestMutationOnFailure ==
    \A r \in DOMAIN run :
        (Ended(r) /\ run[r].threw /\ run[r].outcome \in FailureOutcomes)
            => manifest = run[r].pre.manifest

\* C9 as stated: with locks found and the decision "defer", the run records
\* the requested version as pending and stops: the pending version is the
\* requested one, staging did not run, the target files, the installed
\* version and the file list are as before, and the run ends without error.
C9_DeferPersistsMarker ==
    \A r \in DOMAIN run :
        (Ended(r) /\ run[r].decision = "defer")
            => /\ run[r].outcome = "deferred" /\ ~run[r].threw
               /\ ~run[r].staged /\ target = run[r].pre.target
               /\ manifest.alcopsVersion = run[r].pre.manifest.alcopsVersion
               /\ manifest.files = run[r].pre.manifest.files
               /\ run[r].version \in Versions => getPendingUpdate(manifest) = run[r].version

\* C9 amended: the same, except that when writing the marker fails the
\* manifest is left as it was (the failure is logged, the run still ends
\* without error).
C9_DeferPersistsMarkerUnlessWriteFails ==
    \A r \in DOMAIN run :
        (Ended(r) /\ run[r].decision = "defer")
            => /\ run[r].outcome = "deferred" /\ ~run[r].threw
               /\ ~run[r].staged /\ target = run[r].pre.target
               /\ manifest.alcopsVersion = run[r].pre.manifest.alcopsVersion
               /\ manifest.files = run[r].pre.manifest.files
               /\ run[r].version \in Versions =>
                      \/ getPendingUpdate(manifest) = run[r].version
                      \/ manifest = run[r].pre.manifest

\* a deferred run has recorded v2 as pending over an installation of v1
C9_Witness ==
    \E r \in DOMAIN run :
        /\ Ended(r) /\ run[r].decision = "defer" /\ run[r].version = "v2"
        /\ getPendingUpdate(run[r].pre.manifest) = "none"
        /\ getPendingUpdate(manifest) = "v2" /\ manifest.alcopsVersion = "v1"

\* C10: with locks found and the decision "cancel", the run ends with an
\* error, the manifest (pending flag included) and every target file are as
\* before the run, and staging did not run.
C10_CancelChangesNothing ==
    \A r \in DOMAIN run :
        (Ended(r) /\ run[r].decision = "cancel")
            => /\ run[r].outcome = "cancelled" /\ run[r].threw
               /\ manifest = run[r].pre.manifest
               /\ target = run[r].pre.target
               /\ ~run[r].staged /\ ~run[r].leftBackup

\* a cancelled run has ended over an installation that holds a pending marker
C10_Witness ==
    \E r \in DOMAIN run :
        /\ Ended(r) /\ run[r].decision = "cancel" /\ run[r].threw
        /\ getPendingUpdate(run[r].pre.manifest) # "none"
        /\ manifest = run[r].pre.manifest /\ target = run[r].pre.target

\* run r takes the step from the granted mutex into the pipeline, and the
\* host component is installed
StartsPipeline(r) ==
    run[r].pc = "acquired" /\ run'[r].pc # "acquired" /\ run'[r].outcome # "noHost"

\* no explicit version, host version as recorded, installation valid
NothingToDo(r) ==
    /\ run[r].version = "none"
    /\ manifest.exists /\ manifest.alExtensionVersion = CurrentHost
    /\ verifyAnalyzerInstallation(manifest, target)

\* C13: a run returns early with success, without download, staging or
\* manifest write, if and only if no explicit version was requested, the
\* host version is the recorded one and the installation verifies; in
\* every other case it proceeds to the download.
C13_EarlyReturnIffNothingToDo ==
    [][\A r \in DOMAIN run :
          StartsPipeline(r) =>
              IF NothingToDo(r)
              THEN /\ run'[r].pc = "exiting" /\ run'[r].outcome = "alreadyValid"
                   /\ ~run'[r].threw /\ ~run'[r].staged
                   /\ manifest' = manifest /\ target' = target /\ backupDirs' = backupDirs
              ELSE run'[r].pc = "download" /\ run'[r].outcome = "none"]_vars

\* a run has returned early over a valid installation
C13_Witness ==
    \E r \in DOMAIN run :
        /\ Ended(r) /\ run[r].outcome = "alreadyValid" /\ run[r].version = "none"
        /\ verifyAnalyzerInstallation(manifest, target)
        /\ manifest = run[r].pre.manifest /\ manifest.alExtensionVersion = CurrentHost

\* the manifest records a host version other than the current one
HostVersionDiffers == manifest.exists /\ manifest.alExtensionVersion # CurrentHost

\* the engine deletes the manifest only at the start of a run that finds
\* the host version changed
DeletedOnlyOnHostChange ==
    (manifest.exists /\ ~manifest'.exists) =>
        \E r \in DOMAIN run : StartsPipeline(r) /\ HostVersionDiffers

\* C14 as stated: when the recorded host version differs from the current
\* one, the run deletes the manifest and goes on to the download (and from
\* there to staging) even if every listed file is present and no version
\* was requested; the manifest is deleted in no other situation.
C14_HostChangeDeletesManifest ==
    [][/\ \A r \in DOMAIN run :
              (StartsPipeline(r) /\ HostVersionDiffers)
                  => ~manifest'.exists /\ run'[r].pc = "download"
       /\ DeletedOnlyOnHostChange]_vars

\* C14 amended: the same, except that a failure to delete the manifest file
\* is logged and ignored: the run goes on to the download with the stale
\* manifest in place.
C14_HostChangeDeletesManifestUnlessUnlinkFails ==
    [][/\ \A r \in DOMAIN run :
              (StartsPipeline(r) /\ HostVersionDiffers)
                  => /\ ~manifest'.exists \/ manifest' = manifest
                     /\ run'[r].pc = "download" /\ run'[r].alUpd
       /\ DeletedOnlyOnHostChange]_vars

\* a run without explicit version found a valid installation of an older
\* host, deleted the manifest and staged the package as a fresh install
C14_Witness ==
    \E r \in DOMAIN run :
        /\ run[r].version = "none" /\ run[r].alUpd /\ run[r].staged
        /\ run[r].pre.manifest.alExtensionVersion = OlderHost
        /\ verifyAnalyzerInstallation(run[r].pre.manifest, run[r].pre.target)
        /\ run[r].outcome = "committed" /\ manifest.alExtensionVersion = CurrentHost

(***************************************************************************)
(* More claims about stageAndReplaceFiles (checked under SpecStaging).     *)
(***************************************************************************)
\* the files after position i of the enumeration
FilesAfter(i) == {st.files[j] : j \in (i + 1)..Len(st.files)}

\* C15: staging fails fast: once a file has failed, no later file of the
\* enumeration is backed up or copied, failedFiles holds exactly the file
\* that failed first (the one after the replaced ones), and that list is
\* the one reported.
C15_FailFast ==
    /\ st.failed # <<>> =>
          /\ st.i \in 1..Len(st.files)
          /\ st.failed = <<st.files[st.i]>>
          /\ st.replaced = SubSeq(st.files, 1, st.i - 1)
          /\ \A f \in FilesAfter(st.i) :
                 st.target[f] = stIn.target[f] /\ st.backup[f] = "none"
    /\ st.result.kind = "partial" =>
          Len(st.result.failedFiles) = 1 /\ st.result.failedFiles = st.failed

\* staging has returned after the second of three files failed, the third
\* one being present in the target
C15_Witness ==
    /\ StagingReturned /\ st.result.kind = "partial"
    /\ Len(st.files) = 3 /\ st.i = 2 /\ st.result.failedFiles = <<st.files[2]>>
    /\ stIn.target[st.files[3]] # "none" /\ st.target[st.files[3]] = stIn.target[st.files[3]]

\* the forward pass replaced every file of a non-empty source
AllReplaced == st.files # <<>> /\ st.failed = <<>> /\ Len(st.replaced) = Len(st.files)

\* what a success report says
SuccessReport ==
    st.result.kind = "success" =>
        /\ st.result.success /\ ~st.bdir
        /\ st.result.replacedCount = Len(sourceFilesOf(stIn.src))
        /\ st.result.failedFiles = <<>>

\* C16 as stated: without a per-file failure the backup directory is
\* discarded and success is reported, with replacedCount the number of
\* regular files of the source directory and no failed files; every
\* reported failure has replacedCount 0.
C16_NoFailureReportsSuccess ==
    StagingReturned =>
        /\ AllReplaced => st.result.kind = "success"
        /\ SuccessReport
        /\ ~st.result.success => st.result.replacedCount = 0

\* C17: when a catastrophic failure is reported (success false, no failed
\* files, from the outer catch), no target file has been replaced and no
\* backup directory of the call is left.
C17_CatastrophicReplacesNothing ==
    (StagingReturned /\ st.result.kind = "catastrophic")
        => st.target = stIn.target /\ ~st.bdir

C19_ManifestWriteFailureIsWarning ==
    \A r \in DOMAIN run :
        (Ended(r) /\ run[r].stResult = "success" /\ run[r].outcome = "manifestWrite")
            => ~run[r].threw

(***************************************************************************)
(* Claims about the activation (checked under SpecActivate).               *)
(***************************************************************************)
\* C11: when the install retried at activation from a pending marker fails,
\* for whatever reason, the marker is intact: getPendingUpdate still gives
\* the version recorded before, also when the manifest records another
\* host version than the current one.
C11_FailedRetryKeepsMarker ==
    act.retry = "failed" => act.afterRetry = act.pending

\* C12: on activation, a pending marker starts an install run with exactly
\* the recorded version as its explicit version, before any channel
\* resolution; without a marker no run is started at that point, and no
\* later run of the activation is a retry.
C12_ActivationRetriesPending ==
    /\ [][(act.pc = "start" /\ act'.pc # "start") =>
            IF getPendingUpdate(manifest) # "none"
            THEN /\ run[1].pc = "idle" /\ run'[1].pc = "acquired"
                 /\ run'[1].version = getPendingUpdate(manifest)
                 /\ ~act'.resolved /\ Len(act'.started) = 1
            ELSE run' = run /\ act'.started = <<>>]_vars
    /\ [](\A i \in 1..Len(act.started) : act.started[i].by = "retry" => i = 1)

\* the retried install of the recorded version v2 is running, nothing
\* having been resolved
C12_Witness ==
    /\ act.pc = "retry" /\ act.pending = "v2" /\ ~act.resolved
    /\ run[1].pc = "download" /\ run[1].version = "v2"

(***************************************************************************)
(* Claims about the pending marker (checked under SpecPending).            *)
(***************************************************************************)
\* C20 as stated: for every version string v and every manifest state,
\* getPendingUpdate after markAsPendingUpdate(v) gives v; getPendingUpdate
\* after clearPendingUpdate gives nothing; and every further clear leaves
\* the manifest unchanged.
C20_MarkGetClear ==
    /\ pend.last = "mark" => getPendingUpdate(manifest) = pend.v
    /\ pend.last = "clear" => getPendingUpdate(manifest) = "none"
    /\ (pend.last = "clear" /\ pend.clears >= 2) => manifest = pend.before

\* C20 amended: for every non-empty version string v, getPendingUpdate
\* after markAsPendingUpdate(v) gives v, and getPendingUpdate after
\* clearPendingUpdate gives nothing, unless the write of the manifest
\* failed, which leaves the manifest as it was; a clear of a manifest whose
\* flag is not set leaves the manifest unchanged and without pending version.
C20_MarkGetClearUnlessWriteFails ==
    /\ (pend.last = "mark" /\ pend.v # "") =>
          getPendingUpdate(manifest) = pend.v \/ manifest = pend.before
    /\ pend.last = "clear" =>
          getPendingUpdate(manifest) = "none" \/ manifest = pend.before
    /\ (pend.last = "clear" /\ pend.clears >= 2 /\ ~pend.before.pendingUpdate) =>
          manifest = pend.before /\ getPendingUpdate(manifest) = "none"

\* the minimal manifest of a marker without installation has been cleared
\* three times in a row
C20_Witness ==
    /\ pend.last = "clear" /\ pend.clears = 3
    /\ manifest.exists /\ manifest.alcopsVersion = "unknown"
    /\ ~manifest.pendingUpdate /\ manifest = pend.before
    /\ getPendingUpdate(manifest) = "none"

\* C21: in every manifest state the engine's operations on the manifest file
\* (commit write, markAsPendingUpdate, clearPendingUpdate, delete) reach,
\* pendingVersion is set if and only if pendingUpdate is true.
C21_PendingVersionIffFlag ==
    manifest.pendingUpdate <=> manifest.pendingVersion # "none"

\* a marker for v2 has been cleared
C21_Witness ==
    /\ pend.last = "clear"
    /\ pend.before.pendingUpdate /\ pend.before.pendingVersion = "v2"
    /\ ~manifest.pendingUpdate /\ manifest.pendingVersion = "none"

\* the fields of a manifest other than pendingUpdate and pendingVersion
OtherFields(m) ==
    <<m.exists, m.alcopsVersion, m.alExtensionVersion, m.targetFramework, m.files>>

\* what markAsPendingUpdate has to leave, by C22, where before was
MarkedFrom(before, v) ==
    /\ manifest.pendingUpdate /\ manifest.pendingVersion = v
    /\ IF readManifest(before).exists
       THEN OtherFields(manifest) = OtherFields(before)
       ELSE OtherFields(manifest) = <<TRUE, "unknown", "unknown", "unknown", <<>> >>

\* C22 as stated: markAsPendingUpdate where no manifest is writes a minimal
\* manifest with "unknown" placeholders, an empty file list, pendingUpdate
\* true and the given pendingVersion; where a manifest is, it changes
\* pendingUpdate and pendingVersion only.
C22_MarkToleratesAbsentManifest ==
    pend.last = "mark" => MarkedFrom(pend.before, pend.v)

\* C22 amended: the same, unless the write of the manifest fails, which is
\* logged, raises nothing and leaves the file as it was.
C22_MarkToleratesAbsentManifestUnlessWriteFails ==
    pend.last = "mark" => MarkedFrom(pend.before, pend.v) \/ manifest = pend.before

\* v2 has been marked where there was no manifest file
C22_Witness ==
    /\ pend.last = "mark" /\ pend.v = "v2" /\ ~pend.before.exists
    /\ manifest.exists /\ manifest.alcopsVersion = "unknown" /\ manifest.files = <<>>
    /\ manifest.pendingUpdate /\ manifest.pendingVersion = "v2"

\* the manifest file is missing, unreadable or unparsable
Unreadable(m) == ~m.exists \/ m.corrupt

\* C23: for a missing, unreadable or unparsable manifest file readManifest
\* returns null, and getPendingUpdate, verification, the lock check and
\* clearPendingUpdate behave as they do without a manifest file.
C23_ReadFailureIsNoManifest ==
    /\ Unreadable(manifest) =>
          /\ readManifest(manifest) = NoManifest
          /\ getPendingUpdate(manifest) = "none"
          /\ ~verifyAnalyzerInstallation(manifest, target)
          /\ \A lk \in SUBSET Lockable(target) :
                checkDirectoryForLockedFiles(manifest, target, lk) = <<>>
    /\ (pend.last = "clear" /\ Unreadable(pend.before)) => manifest = pend.before

\* clearPendingUpdate was called on an unparsable manifest file that held a
\* marker and the names of the installed files
C23_Witness ==
    /\ pend.last = "clear" /\ pend.before.corrupt /\ pend.before.pendingUpdate
    /\ manifest = pend.before
    /\ target = InstalledTarget /\ manifest.files = Listing(PkgFiles)

(***************************************************************************)
(* SpecLockCheck: checkDirectoryForLockedFiles called on any manifest, any *)
(* target directory and any result of opening each file.  calc: op         *)
(* ("lockCheck"), open (the result of openSync per file), result.          *)
(***************************************************************************)
\* the file lists a manifest can hold: entry names without repetition
FileLists ==
    {l \in UNION {[1..n -> Entries] : n \in 0..NumFiles} :
        \A i, j \in 1..Len(l) : l[i] = l[j] => i = j}

\* opening a file that does not exist gives ENOENT, and only that does
OpenOutcomes(t) ==
    {open \in [Files -> OpenResults] :
        \A f \in Files : (t[f] = "none") <=> (open[f] = "ENOENT")}

LockCheck ==
    /\ \E open \in OpenOutcomes(target) :
          calc' = [op |-> "lockCheck", open |-> open,
                   result |-> FileLockCheckResult(manifest, target, open)]
    /\ UNCHANGED <<diskVars, runVars, st, stIn, act, pend>>

InitLockCheck ==
    /\ manifest \in {NoManifest}
          \cup {[createManifest("v1", CurrentHost, DetectedFramework, l)
                    EXCEPT !.corrupt = c] : l \in FileLists, c \in BOOLEAN}
    /\ target \in [Files -> {"none", "v1"}]
    /\ backupDirs = {}
    /\ mutex = [isLocked |-> FALSE, queue |-> <<>>]
    /\ run = [r \in Runs |-> IdleRun]
    /\ starts = <<>>
    /\ st = IdleStaging
    /\ stIn = IdleStagingIn
    /\ act = IdleAct
    /\ pend = IdlePend
    /\ calc = IdleCalc

NextLockCheck == LockCheck

SpecLockCheck == InitLockCheck /\ [][NextLockCheck]_vars

(***************************************************************************)
(* Claims about lock detection (checked under SpecLockCheck).              *)
(***************************************************************************)
\* the error codes of a file held by another process or not permitted
LockErrors == {"EACCES", "EPERM", "EBUSY"}

Reported(e) == e \in Range(calc.result.lockedFiles)

OpenedAs(e) == IF e \in Files THEN calc.open[e] ELSE "ENOENT"

\* C24: a file listed in the manifest that exists and whose open for
\* read-write fails with a permission or share-violation error is reported
\* in lockedFiles; a file absent from disk is never reported, and a file
\* whose open fails with another error is not reported.
C24_LockDetection ==
    calc.op = "lockCheck" =>
        \A e \in Entries :
            /\ (/\ e \in Range(readManifest(manifest).files)
                /\ existsInTarget(target, e)
                /\ OpenedAs(e) \in LockErrors) => Reported(e)
            /\ ~existsInTarget(target, e) => ~Reported(e)
            /\ OpenedAs(e) \notin LockErrors => ~Reported(e)

\* of three listed files the first is held by another process, the second
\* is missing and the third cannot be opened for another reason
C24_Witness ==
    /\ calc.op = "lockCheck"
    /\ readManifest(manifest).files = <<"f1", "f2", "f3">>
    /\ calc.open = [f1 |-> "EBUSY", f2 |-> "ENOENT", f3 |-> "EMFILE"]
    /\ calc.result = [isLocked |-> TRUE, lockedFiles |-> <<"f1">>]

\* s can be obtained from t by leaving elements out
RECURSIVE IsSubSeq(_, _)
IsSubSeq(s, t) ==
    IF s = <<>> THEN TRUE
    ELSE IF t = <<>> THEN FALSE
    ELSE IF Head(s) = Head(t) THEN IsSubSeq(Tail(s), Tail(t))
    ELSE IsSubSeq(s, Tail(t))

\* C25: lockedFiles is a subsequence of the manifest's file list, in its
\* order; isLocked is true exactly when lockedFiles is not empty; without
\* manifest, or with an empty file list, the result is not locked.
C25_LockedFilesFollowManifest ==
    calc.op = "lockCheck" =>
        /\ IsSubSeq(calc.result.lockedFiles, readManifest(manifest).files)
        /\ calc.result.isLocked <=> calc.result.lockedFiles # <<>>
        /\ readManifest(manifest).files = <<>> => ~calc.result.isLocked

\* the manifest lists f3 before f1, both are held, and so is f2, which the
\* manifest does not list
C25_Witness ==
    /\ calc.op = "lockCheck"
    /\ readManifest(manifest).files = <<"f3", "f1">>
    /\ calc.open = [f1 |-> "EACCES", f2 |-> "EPERM", f3 |-> "EBUSY"]
    /\ calc.result = [isLocked |-> TRUE, lockedFiles |-> <<"f3", "f1">>]

(***************************************************************************)
(* Strings.  Version strings and framework monikers are sequences of       *)
(* one-character strings; the operators below are the String methods the   *)
(* code applies to them.                                                   *)
(***************************************************************************)
DigitChars == <<"0", "1", "2", "3", "4", "5", "6", "7", "8", "9">>

LowerChars ==
    <<"a", "b", "c", "d", "e", "f", "g", "h", "i", "j", "k", "l", "m",
      "n", "o", "p", "q", "r", "s", "t", "u", "v", "w", "x", "y", "z">>

UpperChars ==
    <<"A", "B", "C", "D", "E", "F", "G", "H", "I", "J", "K", "L", "M",
      "N", "O", "P", "Q", "R", "S", "T", "U", "V", "W", "X", "Y", "Z">>

IndexOf(seq, c) == CHOOSE i \in 1..Len(seq) : seq[i] = c

\* the UTF-16 code unit of a character
CharCode(c) ==
    IF c \in Range(DigitChars) THEN 47 + IndexOf(DigitChars, c)
    ELSE IF c \in Range(UpperChars) THEN 64 + IndexOf(UpperChars, c)
    ELSE IF c \in Range(LowerChars) THEN 96 + IndexOf(LowerChars, c)
    ELSE IF c = "-" THEN 45
    ELSE 46   \* "."

\* String.prototype.toLowerCase
toLowerCase(str) ==
    [i \in 1..Len(str) |->
        IF str[i] \in Range(UpperChars)
        THEN LowerChars[IndexOf(UpperChars, str[i])] ELSE str[i]]

\* String.prototype.includes
includes(str, sub) ==
    \E i \in 1..(Len(str) - Len(sub) + 1) : SubSeq(str, i, i + Len(sub) - 1) = sub

\* String.prototype.startsWith
startsWith(str, prefix) ==
    Len(prefix) <= Len(str) /\ SubSeq(str, 1, Len(prefix)) = prefix

\* str1 < str2 as JavaScript compares strings
LexLess(str1, str2) ==
    \/ \E i \in 1..Len(str1) :
          /\ i <= Len(str2)
          /\ \A j \in 1..(i - 1) : str1[j] = str2[j]
          /\ CharCode(str1[i]) < CharCode(str2[i])
    \/ Len(str1) < Len(str2) /\ SubSeq(str2, 1, Len(str1)) = str1

\* the decimal digits of a natural number (template literal `${v}`)
RECURSIVE NumberToString(_)
NumberToString(n) ==
    IF n < 10 THEN <<DigitChars[n + 1]>>
    ELSE NumberToString(n \div 10) \o <<DigitChars[(n % 10) + 1]>>

\* null, where a string is expected
Absent == <<>>

(***************************************************************************)
(* queryLatestVersion and filterVersionsByChannel (version-manager.ts).    *)
(***************************************************************************)
Channels == {"stable", "beta", "alpha"}

Dash == <<"-">>

DashBeta == <<"-", "b", "e", "t", "a">>

DashAlpha == <<"-", "a", "l", "p", "h", "a">>

\* (variant) a filter that compares without lower-casing
filterVersionsByChannel_CaseSensitive(versions, channel) ==
    SelectSeq(versions, LAMBDA version :
        CASE channel = "stable" -> ~includes(version, Dash)
          [] channel = "beta"   -> includes(version, DashBeta)
          [] channel = "alpha"  -> includes(version, DashAlpha)
          [] OTHER              -> FALSE)

filterVersionsByChannel(versions, channel) ==
    SelectSeq(versions, LAMBDA version :
        LET lowerVersion == toLowerCase(version) IN
        CASE channel = "stable" -> ~includes(lowerVersion, Dash)
          [] channel = "beta"   -> includes(lowerVersion, DashBeta)
          [] channel = "alpha"  -> includes(lowerVersion, DashAlpha)
          [] OTHER              -> FALSE)

\* (variant) queryLatestVersion that takes the first entry
queryLatestVersion_First(versions, channel) ==
    LET filtered == filterVersionsByChannel(versions, channel) IN
    IF Len(versions) = 0 \/ Len(filtered) = 0 THEN Absent ELSE filtered[1]

\* queryLatestVersion, versions being what queryNuGetIndex resolved with
queryLatestVersion(versions, channel) ==
    LET filtered == filterVersionsByChannel(versions, channel) IN
    IF Len(versions) = 0 THEN Absent
    ELSE IF Len(filtered) = 0 THEN Absent
    ELSE filtered[Len(filtered)]

(***************************************************************************)
(* SpecChannel: queryLatestVersion called for any channel with any list of *)
(* published versions.  calc: op ("published": the registry's list is      *)
(* there; "query": the call returned; "queryFailed": the registry could    *)
(* not be read), versions, channel, filtered, latest.                      *)
(***************************************************************************)
NoSuffix == <<>>

\* the pre-release suffixes of the published versions
Suffixes ==
    {NoSuffix, <<"-", "b", "e", "t", "a", "1">>, <<"-", "B", "E", "T", "A">>,
     <<"-", "a", "l", "p", "h", "a", "1">>, <<"-", "r", "c", "1">>}

\* the version string <major>.0.0<suffix>
VersionString(major, suffix) ==
    NumberToString(major) \o <<".", "0", ".", "0">> \o suffix

PublishedVersions == {VersionString(major, suffix) : major \in {1, 9, 10}, suffix \in Suffixes}

PublishedLists == UNION {[1..n -> PublishedVersions] : n \in 0..MaxPublished}

QueryLatest ==
    /\ calc.op = "published"
    /\ \/ calc' = [op |-> "query", versions |-> calc.versions, channel |-> calc.channel,
                   filtered |-> filterVersionsByChannel(calc.versions, calc.channel),
                   latest |-> queryLatestVersion(calc.versions, calc.channel)]
       \/ \* queryNuGetIndex rejected: the error is logged, null is returned
          calc' = [op |-> "queryFailed", versions |-> calc.versions,
                   channel |-> calc.channel, filtered |-> <<>>, latest |-> Absent]
    /\ UNCHANGED <<diskVars, runVars, st, stIn, act, pend>>

InitChannel ==
    /\ calc \in [op : {"published"}, versions : PublishedLists, channel : Channels]
    /\ manifest = NoManifest
    /\ target = NoFiles
    /\ backupDirs = {}
    /\ mutex = [isLocked |-> FALSE, queue |-> <<>>]
    /\ run = [r \in Runs |-> IdleRun]
    /\ starts = <<>>
    /\ st = IdleStaging
    /\ stIn = IdleStagingIn
    /\ act = IdleAct
    /\ pend = IdlePend

NextChannel == QueryLatest

SpecChannel == InitChannel /\ [][NextChannel]_vars

(***************************************************************************)
(* Claims about the version query (checked under SpecChannel).             *)
(***************************************************************************)
\* the classification of a version string by channel
InChannel(version, channel) ==
    CASE channel = "stable" -> ~includes(toLowerCase(version), Dash)
      [] channel = "beta"   -> includes(toLowerCase(version), DashBeta)
      [] channel = "alpha"  -> includes(toLowerCase(version), DashAlpha)

\* the versions of the list that are of the channel, in the list's order
ChannelSubset == SelectSeq(calc.versions, LAMBDA v : InChannel(v, calc.channel))

C27_ChannelFilter ==
    calc.op = "query" =>
        /\ calc.filtered = ChannelSubset
        /\ calc.latest # Absent =>
              (calc.channel = "stable" <=> ~includes(calc.latest, Dash))

\* the beta channel of a list with a stable version, an upper-case beta
\* version and an alpha version
C27_Witness ==
    /\ calc.op = "query" /\ calc.channel = "beta"
    /\ calc.versions = <<VersionString(1, NoSuffix),
                         VersionString(1, <<"-", "B", "E", "T", "A">>),
                         VersionString(1, <<"-", "a", "l", "p", "h", "a", "1">>)>>
    /\ calc.filtered = <<VersionString(1, <<"-", "B", "E", "T", "A">>)>>
    /\ calc.latest = VersionString(1, <<"-", "B", "E", "T", "A">>)

(***************************************************************************)
(* findMatchingLibFolder (version-manager.ts).                             *)
(***************************************************************************)
\* String.prototype.replace(pattern, by) with a string pattern: the first
\* occurrence is replaced
replace(str, pattern, by) ==
    IF ~includes(str, pattern) THEN str
    ELSE LET at == CHOOSE i \in 1..Len(str) :
                      /\ SubSeq(str, i, i + Len(pattern) - 1) = pattern
                      /\ \A j \in 1..(i - 1) :
                            SubSeq(str, j, j + Len(pattern) - 1) # pattern
         IN  SubSeq(str, 1, at - 1) \o by \o SubSeq(str, at + Len(pattern), Len(str))

NaN == [nan |-> TRUE, value |-> 0]

\* the value of a sequence of digits
RECURSIVE DigitsValue(_)
DigitsValue(digits) ==
    IF digits = <<>> THEN 0
    ELSE 10 * DigitsValue(SubSeq(digits, 1, Len(digits) - 1))
         + (IndexOf(DigitChars, digits[Len(digits)]) - 1)

\* parseInt: the number the leading digits of the string denote, NaN when
\* the string does not start with a digit
parseInt(str) ==
    LET k == CHOOSE n \in 0..Len(str) :
                /\ \A i \in 1..n : str[i] \in Range(DigitChars)
                /\ n < Len(str) => str[n + 1] \notin Range(DigitChars)
    IN  IF k = 0 THEN NaN ELSE [nan |-> FALSE, value |-> DigitsValue(SubSeq(str, 1, k))]

Net == <<"n", "e", "t">>

NetStandard == Net \o <<"s", "t", "a", "n", "d", "a", "r", "d">>

\* the moniker net<v>.0
NetMoniker(v) == Net \o NumberToString(v) \o <<".", "0">>

\* the moniker netstandard2.<minor>
NetStandardMoniker(minor) == NetStandard \o <<"2", ".">> \o NumberToString(minor)

NetCoreApp31 == Net \o <<"c", "o", "r", "e", "a", "p", "p", "3", ".", "1">>

\* (variant) a scan that starts at the target's own version
scanStart_NoWindow(version) == version

\* the version the scan starts at
scanStart(version) == version + 5

\* the loop of lines 773-778, from candidate version v downwards
RECURSIVE scanDown(_, _)
scanDown(v, folders) ==
    IF v < 6 THEN Absent
    ELSE IF NetMoniker(v) \in folders THEN NetMoniker(v)
    ELSE scanDown(v - 1, folders)

\* findMatchingLibFolder: libExists says that the package has a lib folder,
\* folders is what readdirSync lists in it
findMatchingLibFolder(libExists, folders, targetFramework) ==
    IF ~libExists THEN Absent
    ELSE IF targetFramework \in folders THEN targetFramework
    ELSE IF startsWith(targetFramework, Net) /\ ~startsWith(targetFramework, NetStandard)
    THEN LET version == parseInt(replace(targetFramework, Net, <<>>))
             found == IF version.nan THEN Absent
                      ELSE scanDown(scanStart(version.value), folders)
         IN  IF found # Absent THEN found
             ELSE IF NetStandardMoniker(1) \in folders THEN NetStandardMoniker(1)
             ELSE Absent
    ELSE Absent

(***************************************************************************)
(* SpecLibFolder: findMatchingLibFolder called for any target moniker and  *)
(* any content of the package's lib folder, and the test that follows it   *)
(* in the install run.  calc: op ("extracted": the package is extracted;   *)
(* "match": the folder was looked up), libExists, folders, target, result, *)
(* noMatch (the run threw "No matching lib folder found").                 *)
(***************************************************************************)
TargetMonikers ==
    {NetMoniker(6), NetMoniker(8), NetStandardMoniker(0), NetStandardMoniker(1),
     NetCoreApp31}

FolderNames ==
    {NetMoniker(v) : v \in {6, 8, 9, 13, MaxNet}}
    \cup {NetStandardMoniker(0), NetStandardMoniker(1)}

MatchLibFolder ==
    /\ calc.op = "extracted"
    /\ LET libFolderName == findMatchingLibFolder(calc.libExists, calc.folders, calc.target)
       IN  calc' = [calc EXCEPT !.op = "match", !.result = libFolderName,
                                !.noMatch = (libFolderName = Absent)]
    /\ UNCHANGED <<diskVars, runVars, st, stIn, act, pend>>

InitLibFolder ==
    /\ \E libExists \in BOOLEAN, folders \in SUBSET FolderNames, tf \in TargetMonikers :
          /\ ~libExists => folders = {}
          /\ calc = [op |-> "extracted", libExists |-> libExists, folders |-> folders,
                     target |-> tf, result |-> Absent, noMatch |-> FALSE]
    /\ manifest = NoManifest
    /\ target = NoFiles
    /\ backupDirs = {}
    /\ mutex = [isLocked |-> FALSE, queue |-> <<>>]
    /\ run = [r \in Runs |-> IdleRun]
    /\ starts = <<>>
    /\ st = IdleStaging
    /\ stIn = IdleStagingIn
    /\ act = IdleAct
    /\ pend = IdlePend

NextLibFolder == MatchLibFolder

SpecLibFolder == InitLibFolder /\ [][NextLibFolder]_vars

(***************************************************************************)
(* Claims about the lib folder (checked under SpecLibFolder).              *)
(***************************************************************************)
Max(S) == CHOOSE x \in S : \A y \in S : y <= x

\* the versions v in 6..N+5 whose folder net<v>.0 is in the package
ScannedPresent(N) == {v \in 6..(N + 5) : NetMoniker(v) \in calc.folders}

\* the folder the precedence of C28 selects for the target net<N>.0
Selected(N) ==
    IF NetMoniker(N) \in calc.folders THEN NetMoniker(N)
    ELSE IF ScannedPresent(N) # {} THEN NetMoniker(Max(ScannedPresent(N)))
    ELSE IF NetStandardMoniker(1) \in calc.folders THEN NetStandardMoniker(1)
    ELSE Absent

\* C28: for a target net<N>.0 findMatchingLibFolder returns the exact
\* moniker if present, otherwise the folder net<v>.0 with the greatest v in
\* 6..N+5 that is present, otherwise netstandard2.1 if present, otherwise
\* nothing.
C28_LibFolderPrecedence ==
    (calc.op = "match" /\ calc.libExists) =>
        \A N \in 1..MaxNet : calc.target = NetMoniker(N) => calc.result = Selected(N)

\* target net8.0 with the folders net6.0 and netstandard2.1 selects net6.0
C28_Witness ==
    /\ calc.op = "match" /\ calc.target = NetMoniker(8)
    /\ calc.folders = {NetMoniker(6), NetStandardMoniker(1)}
    /\ calc.result = NetMoniker(6)

\* a folder net<v>.0 of the scan of the target is in the package
ScanFinds ==
    \E N \in 1..MaxNet : calc.target = NetMoniker(N) /\ ScannedPresent(N) # {}

C30_SuccessOnlyIfInstalled ==
    /\ act.completed =>
          /\ getInstalledALCopsVersionFromManifest(manifest) = act.pending
          /\ getPendingUpdate(manifest) = "none"
    /\ act.retryOutcome = "deferred" => ~act.completed

(***************************************************************************)
(* CodeAnalyzersManager (version-manager.ts) and the status bar count.     *)
(* A setting of al.codeAnalyzers is a record: [kind |-> "builtin", name]   *)
(* for "${<name>}" and [kind |-> "analyzerFolder", name] for               *)
(* "${analyzerFolder}<name>"; two settings are the same string exactly     *)
(* when the records are equal.                                             *)
(***************************************************************************)
\* file names of analyzer assemblies, in directory order
AnalyzerFileOrder ==
    <<"ALCops.Common.dll", "ALCops.LinterCop.dll", "ALCops.PlatformCop.dll", "ThirdParty.dll">>

AnalyzerFiles == Range(AnalyzerFileOrder)

\* String.prototype.toLowerCase on the file names above
LowerCaseName ==
    [n \in AnalyzerFiles |->
        CASE n = "ALCops.Common.dll"      -> "alcops.common.dll"
          [] n = "ALCops.LinterCop.dll"   -> "alcops.lintercop.dll"
          [] n = "ALCops.PlatformCop.dll" -> "alcops.platformcop.dll"
          [] n = "ThirdParty.dll"         -> "thirdparty.dll"]

isCommonLibrary(fileName) == LowerCaseName[fileName] = "alcops.common.dll"

AnalyzerFolderSetting(fileName) == [kind |-> "analyzerFolder", name |-> fileName]

\* getDefaultCodeAnalyzers: the settings of the four AL analyzers
getDefaultCodeAnalyzers ==
    <<[kind |-> "builtin", name |-> "CodeCop"],
      [kind |-> "builtin", name |-> "UICop"],
      [kind |-> "builtin", name |-> "PerTenantExtensionCop"],
      [kind |-> "builtin", name |-> "AppSourceCop"]>>

\* loadCodeAnalyzers: the settings of analyzersList
loadCodeAnalyzers(m) ==
    LET files == readManifest(m).files IN
    IF ~readManifest(m).exists \/ Len(files) = 0
    THEN getDefaultCodeAnalyzers
    ELSE getDefaultCodeAnalyzers
         \o [i \in 1..Len(SelectSeq(files, LAMBDA f : ~isCommonLibrary(f))) |->
                AnalyzerFolderSetting(SelectSeq(files, LAMBDA f : ~isCommonLibrary(f))[i])]

\* countActiveCodeAnalyzers, activeAnalyzers being the set of the entries of
\* al.codeAnalyzers
countActiveCodeAnalyzers(analyzersList, activeAnalyzers) ==
    Len(SelectSeq(analyzersList, LAMBDA analyzer : analyzer \in activeAnalyzers))

(***************************************************************************)
(* SpecAnalyzers: the status bar is updated for any manifest and any       *)
(* al.codeAnalyzers setting.  calc: op ("settings": the configuration is   *)
(* there; "count": the status bar shows the count), active, count.         *)
(***************************************************************************)
\* the entries al.codeAnalyzers can hold: AL's analyzers, analyzers of the
\* analyzer folder, and one that is neither
ActiveSettings ==
    {[kind |-> "builtin", name |-> n] : n \in {"CodeCop", "UICop", "Other"}}
    \cup {AnalyzerFolderSetting(f) : f \in AnalyzerFiles}

updateStatusBar ==
    /\ calc.op = "settings"
    /\ calc' = [op |-> "count", active |-> calc.active,
                count |-> countActiveCodeAnalyzers(loadCodeAnalyzers(manifest), calc.active)]
    /\ UNCHANGED <<diskVars, runVars, st, stIn, act, pend>>

InitAnalyzers ==
    /\ manifest \in {NoManifest}
          \cup {createManifest("v1", CurrentHost, DetectedFramework,
                               SelectSeq(AnalyzerFileOrder, LAMBDA f : f \in S))
                : S \in SUBSET (AnalyzerFiles \ {"ThirdParty.dll"})}
    /\ calc \in [op : {"settings"}, active : SUBSET ActiveSettings]
    /\ target = NoFiles
    /\ backupDirs = {}
    /\ mutex = [isLocked |-> FALSE, queue |-> <<>>]
    /\ run = [r \in Runs |-> IdleRun]
    /\ starts = <<>>
    /\ st = IdleStaging
    /\ stIn = IdleStagingIn
    /\ act = IdleAct
    /\ pend = IdlePend

NextAnalyzers == updateStatusBar

SpecAnalyzers == InitAnalyzers /\ [][NextAnalyzers]_vars

(***************************************************************************)
(* Claims about the status bar count (checked under SpecAnalyzers).        *)
(***************************************************************************)
\* the active entries with the ${analyzerFolder} prefix other than the
\* Common library
ActiveFolderAnalyzers ==
    {a \in calc.active : a.kind = "analyzerFolder" /\ ~isCommonLibrary(a.name)}

\* C31: every active entry with the ${analyzerFolder} prefix other than the
\* Common library, listed in the manifest or not, contributes to the count,
\* and the Common library never does.
C31_CountIncludesFolderAnalyzers ==
    calc.op = "count" =>
        /\ calc.count >= Cardinality(ActiveFolderAnalyzers)
        /\ calc.count <= Cardinality({a \in calc.active :
                             ~(a.kind = "analyzerFolder" /\ isCommonLibrary(a.name))})

(***************************************************************************)
(* Claims about the lock check, staging and the commit of a run (checked   *)
(* under Spec).                                                            *)
(***************************************************************************)
\* C32: a run whose lock check finds no locked file goes to staging without
\* a decision being requested; a run with locks found and the decision
\* "reload" goes to staging; staging is never started after the decision
\* "defer" or "cancel", and never before the run's lock check.
C32_StagingFollowsLockCheck ==
    \A r \in Runs :
        /\ run[r].locks = "clear" => run[r].staged /\ run[r].decision = "none"
        /\ run[r].decision = "reload" => run[r].staged
        /\ run[r].decision \in {"defer", "cancel"} => ~run[r].staged
        /\ run[r].staged => run[r].locks # "none"
        /\ run[r].decision # "none" => run[r].locks = "found"

\* a run found locks, was told to reload and has staged
C32_Witness ==
    \E r \in Runs :
        /\ run[r].locks = "found" /\ run[r].decision = "reload"
        /\ run[r].staged /\ run[r].stResult = "success"

\* the run's staging did not succeed
StagingFailed(r) ==
    run[r].staged /\ run[r].stResult \in {"partial", "catastrophic", "threw"}

\* C33: when staging fails the run aborts with an error chosen by a fresh
\* lock check: with locked files found the error is the lock error naming
\* those files, otherwise it is the staging failure reason; in both cases
\* the manifest is not written, the pending flag not cleared and the old
\* backups not swept.
C33_StagingFailureChosenByLockCheck ==
    \A r \in Runs :
        StagingFailed(r) =>
            /\ run[r].threw
            /\ run[r].recheck # "none"
            /\ run[r].recheck = "locked"
                   => run[r].outcome = "lockError" /\ run[r].named # <<>>
            /\ run[r].recheck = "clear"
                   => run[r].outcome = "stagingError" /\ run[r].named = <<>>
            /\ \/ manifest = run[r].pre.manifest
               \/ hasALExtensionChanged(run[r].pre.manifest) /\ manifest = NoManifest

(***************************************************************************)
(* Claims about the copy loop and the enumeration of stageAndReplaceFiles  *)
(* (checked under SpecStaging).                                            *)
(***************************************************************************)
\* the forward pass (the copy loop, up to the test that follows it)
InForwardPass == st.pc \in {"backup", "copy", "finish"}

\* file f was in the target before the call and no longer has that content
Overwritten(s, f) == stIn.target[f] # "none" /\ s.target[f] # stIn.target[f]

\* the backup directory holds the content f had before the call
BackedUp(s, f) == s.bdir /\ s.backup[f] = stIn.target[f]

\* C34: in stageAndReplaceFiles the content a target file had before the
\* call is copied to the backup directory before the file is overwritten:
\* in no state of the forward pass is a pre-existing target file overwritten
\* while the backup directory lacks its content, and the step that
\* overwrites it starts with the backup in place.
C34_BackupBeforeOverwrite ==
    /\ [](InForwardPass => \A f \in Files : Overwritten(st, f) => BackedUp(st, f))
    /\ [][\A f \in Files :
             (st.pc = "copy" /\ st'.target[f] # st.target[f] /\ stIn.target[f] # "none")
                 => BackedUp(st, f)]_vars

\* the loop has overwritten a file that was in the target and goes on to
\* the next file
C34_Witness ==
    /\ st.pc = "backup" /\ st.i = 2
    /\ Overwritten(st, st.files[1]) /\ st.target[st.files[1]] = StagedVersion
    /\ BackedUp(st, st.files[1])

\* the source directory has no regular file directly under it
NoRegularFiles == sourceFilesOf(stIn.src) = <<>>

\* the call left the target directory alone and created no backup directory
NothingTouched == ~st.bdir /\ st.backup = NoFiles /\ st.target = stIn.target

\* C35 as stated: with a source directory that has no regular file directly
\* under it (empty, or directories only) stageAndReplaceFiles succeeds with
\* zero replacements, creates no backup directory and modifies no target file.
C35_EmptySourceSucceeds ==
    NoRegularFiles =>
        /\ NothingTouched
        /\ StagingReturned => st.result = StagingSuccess(0)

\* C35 amended: with such a source directory the call creates no backup
\* directory and modifies no target file, and it succeeds with zero
\* replacements unless reading the source directory throws, in which case
\* it reports a failure with no file replaced and no failed file.
C35_EmptySourceSucceedsUnlessReadFails ==
    NoRegularFiles =>
        /\ NothingTouched
        /\ StagingReturned => st.result \in {StagingSuccess(0), StagingCatastrophic}

\* the call has returned success for a source that holds a directory only,
\* over a target with files
C35_Witness ==
    /\ StagingReturned /\ stIn.src = <<SubDir>>
    /\ st.result = StagingSuccess(0) /\ NothingTouched
    /\ \E f \in Files : stIn.target[f] # "none"

(***************************************************************************)
(* Claims about the update check and the runs it starts (checked under     *)
(* SpecActivate).                                                          *)
(***************************************************************************)
\* the update check asked for the latest version and got none
NoLatestVersion == act.resolved /\ act.pc # "resolve" /\ act.latest = "none"

\* C36: when the version resolution of the automatic update check yields no
\* result the check does nothing: the step that receives the empty answer
\* starts no install run, leaves the manifest and the target as they are and
\* does not advance the time of the last check, and nothing of it follows.
C36_NoVersionNoUpdate ==
    /\ [](NoLatestVersion =>
             /\ act.pc = "active" /\ ~act.lastCheck
             /\ run[1].pc = "idle"
             /\ \A i \in 1..Len(act.started) : ~act.started[i].resolved)
    /\ [][(act.pc = "resolve" /\ act'.latest = "none") =>
             /\ manifest' = manifest /\ target' = target /\ backupDirs' = backupDirs
             /\ run' = run /\ mutex' = mutex
             /\ act'.started = act.started /\ act'.lastCheck = act.lastCheck]_vars

\* the check of an installed package got no latest version
C36_Witness ==
    /\ NoLatestVersion /\ act.pc = "active"
    /\ manifest.exists /\ manifest.alcopsVersion = "v1" /\ ~act.lastCheck

(***************************************************************************)
(* Claims about what a committed or deferred run leaves (checked under     *)
(* Spec).                                                                  *)
(***************************************************************************)
\* C37: right after a run that commits the installation verifies as valid:
\* every entry of the manifest's file list exists in the target directory,
\* whatever the matching lib folder of the package holds (subdirectories,
\* which staging does not copy, included).
C37_CommitLeavesValidInstall ==
    \A r \in Runs :
        (Ended(r) /\ run[r].outcome = "committed")
            => verifyAnalyzerInstallation(manifest, target)

SpecMutexLive ==
    /\ SpecMutex
    /\ \A c \in Callers :
          /\ WF_vars(OperationStart(c))
          /\ WF_vars(OperationSettle(c))
          /\ WF_vars(Release(c))

\* caller c has called withLock and its operation has not started
AwaitingLock(c) == run[c].pc \in {"waiting", "acquired"}

\* no call of withLock is under way
Quiescent == \A c \in Callers : run[c].pc \in {"idle", "done"}

\* C38: if every wrapped operation eventually returns or throws, every
\* caller of withLock eventually starts its operation, and once no
\* operation is running and no caller is waiting the mutex is unlocked and
\* its queue is empty.
C38_EveryCallerStarts ==
    /\ \A c \in Callers : AwaitingLock(c) ~> (run[c].pc = "operation")
    /\ [](Quiescent => ~mutex.isLocked /\ mutex.queue = <<>>)

\* the last of the callers, which had to wait behind others, one of which
\* threw, has started its operation
C38_Witness ==
    /\ run[MaxCallers].pc = "operation" /\ run[MaxCallers].handed = "throw"
    /\ \A c \in Callers \ {MaxCallers} : run[c].pc = "done"

====
